---- MODULE Spec2Model ----
(***************************************************************************)
(* The call controller of the Ijonis caller: the React component           *)
(* CallInterface in the version that drives the WebSocket transport        *)
(* OpenAIRealtimeConnection and the AudioProcessor found in the            *)
(* repository (startCall, declineCall, endCall and the transport callbacks *)
(* are the same, line for line, in the later version of the component).    *)
(*                                                                         *)
(* One handler of the code is one action: the event loop runs a handler    *)
(* to its end (or to its next await) before the next event is taken.       *)
(* State setters of an unmounted component are no-ops (React).             *)
(* The socket follows the WHATWG WebSocket life cycle: open and message    *)
(* events are delivered only before close() was called; close() on a       *)
(* CONNECTING socket fails the connection, which fires an error event and  *)
(* then a close event; a connection that fails while the close handshake   *)
(* is under way (RFC 6455, 7.1.7) fires an error event as well.            *)
(***************************************************************************)
EXTENDS Integers, Sequences, FiniteSets, TLC

\* ------------------------------------------------------------ bounds
\* Number of call attempts (startCall clicks) of the longest runs explored.
MaxAttempts == 3
\* Number of call attempts of the runs of Spec.
MaxCalls == 2
\* Number of ENDED->IDLE timers that may be pending at the same time.
MaxTimers == 2

Attempts == 1..MaxAttempts
Epochs == 0..MaxAttempts

\* ------------------------------------------------------------ constants of the code
IDLE == "IDLE"
RINGING == "RINGING"
CONNECTING == "CONNECTING"
USER_SPEAKING == "USER_SPEAKING"
AGENT_SPEAKING == "AGENT_SPEAKING"
CONVERSATION == "CONVERSATION"
ENDED == "ENDED"

CallState == {IDLE, RINGING, CONNECTING, USER_SPEAKING, AGENT_SPEAKING, CONVERSATION, ENDED}

\* The phases of a call in progress.
ActivePhases == {CONNECTING, USER_SPEAKING, AGENT_SPEAKING, CONVERSATION}
\* The phases in which the hang-up button is rendered.
InCallPhases == {USER_SPEAKING, AGENT_SPEAKING, CONVERSATION}

\* Error messages of the code.
MsgMicDenied == "Mikrofonzugriff verweigert"
MsgNoApiKey == "OpenAI API key not configured"
MsgFetchFailed == "Failed to fetch"
MsgBadProtocol == "SyntaxError"
MsgWsError == "Verbindung unterbrochen"
MsgServerError == "Ein Fehler ist aufgetreten"

VARIABLES
    apiKey,             \* VITE_OPENAI_API_KEY of the build: "missing", "malformed", "ok"
    mounted,            \* the component is mounted
    callState,          \* useState callState
    error,              \* useState error
    isAgentSpeaking,    \* useState isAgentSpeaking
    connectionRef,      \* 0 (null) or the attempt whose connection object it holds
    audioProcessorRef,  \* 0 (null) or the attempt whose AudioProcessor it holds
    speakingTimeoutRef, \* the debounce timer handle: [set, live, ep]
    debouncePending,    \* number of debounce timers set and neither fired nor cleared
    endTimers,          \* pending ENDED->IDLE timers, by the attempt that was current when set
    attempt,            \* number of startCall so far
    pc,                 \* position of each attempt's answerCall
    aborted,            \* observer: cleanup ran while the attempt's connect was outstanding
    uncaught,           \* observer: an exception escaped a handler
    conn,               \* the OpenAIRealtimeConnection object of each attempt
    ap,                 \* the AudioProcessor object of each attempt
    trail,              \* observer: the events so far while they follow the happy path
    phases,             \* observer: the phases callState went through on the trail
    proc,               \* an AudioProcessor object taken by itself
    store,              \* the server: its environment and its key-value store
    http,               \* the last request handled by the server and its response
    editor,             \* the configuration page: its React state
    reqs,               \* the requests the server is handling, each with its position
    auth                \* the AuthProvider: its React state and the browser's storage

vars == <<apiKey, mounted, callState, error, isAgentSpeaking,
          connectionRef, audioProcessorRef, speakingTimeoutRef, debouncePending,
          endTimers, attempt, pc, aborted, uncaught, conn, ap, trail, phases,
          proc, store, http, editor, reqs, auth>>


\* ------------------------------------------------------------ objects
\* No AudioProcessor is under study, no server is running, no request was handled.
NoProc == [made |-> FALSE]
NoStore == [server |-> "none"]
NoHttp == [op |-> "none"]

\* The configuration page is not open, the server handles no request, no AuthProvider
\* is mounted.
NoEditor == [open |-> FALSE]
NoReqs == <<>>
NoAuth == [mounted |-> FALSE]

NoTimer == [set |-> FALSE, live |-> FALSE, ep |-> 0]

\* A connection object: made (constructed), ws (this.ws !== null), sock (the
\* browser's socket: none, connecting, open, closing, closingFail, closed),
\* disconnects (calls of disconnect()), errored (onError was delivered),
\* late (a callback was delivered after disconnect()), established
\* (onConnectionEstablished was delivered), first (the type of the first message
\* transmitted), audio (an input_audio_buffer.append or .commit message was
\* transmitted).
NoConn == [made |-> FALSE, ws |-> FALSE, sock |-> "none", disconnects |-> 0,
           errored |-> FALSE, late |-> FALSE, established |-> FALSE,
           first |-> "none", audio |-> FALSE]

\* An AudioProcessor: mediaStream (an open microphone stream is held), capture
\* (scriptProcessor and sourceNode are set), audioContext (set).
NoAp == [made |-> FALSE, mediaStream |-> FALSE, capture |-> FALSE, audioContext |-> FALSE]

SockLive == {"connecting", "open"}

Sum(f) == LET RECURSIVE S(_)
              S(D) == IF D = {} THEN 0
                      ELSE LET x == CHOOSE y \in D : TRUE IN f[x] + S(D \ {x})
          IN S(DOMAIN f)

\* A React state setter: no effect once the component is unmounted.
Set(new, old) == IF mounted THEN new ELSE old

\* ------------------------------------------------------------ observer of the happy path
Off == <<"off">>

HappyPath ==
    <<"startCall", "answerCall", "configLoaded", "micGranted", "onConnectionEstablished",
      "onAgentSpeaking", "onAgentFinished", "endCall", "endTimer">>

IsPrefix(s, t) == Len(s) <= Len(t) /\ SubSeq(t, 1, Len(s)) = s

Observe(ev) ==
    LET next == Append(trail, ev)
        on == trail # Off /\ IsPrefix(next, HappyPath)
    IN /\ trail' = IF on THEN next ELSE Off
       /\ phases' = IF ~on THEN <<>>
                    ELSE IF callState' # callState THEN Append(phases, callState')
                    ELSE phases

\* ------------------------------------------------------------ AudioProcessor
\* AudioProcessor.stopCapture
stopCapture(p) == [p EXCEPT !.capture = FALSE, !.audioContext = FALSE, !.mediaStream = FALSE]

\* AudioProcessor.cleanup: stopCapture, stopPlayback, close the audio context.
apCleanup(p) == [stopCapture(p) EXCEPT !.audioContext = FALSE]

\* AudioProcessor.startCapture; it throws when no stream is held, and p is unchanged.
startCapture(p) == IF p.mediaStream THEN [p EXCEPT !.capture = TRUE, !.audioContext = TRUE] ELSE p

\* AudioProcessor.playAudioDelta: creates the audio context when there is none.
playAudioDelta(p) == [p EXCEPT !.audioContext = TRUE]

\* ------------------------------------------------------------ OpenAIRealtimeConnection
\* WebSocket.close() of the browser.
wsClose(s) == CASE s = "connecting" -> "closingFail"
                [] s = "open" -> "closing"
                [] OTHER -> s

\* The record of a message of the given type transmitted by connection c.
transmitted(c, type) ==
    [c EXCEPT !.first = IF c.first = "none" THEN type ELSE c.first,
              !.audio = c.audio \/ type # "session.update"]

\* A send that hands the message to the socket whatever its readyState.
sendUnchecked(c, type) == IF c.ws THEN transmitted(c, type) ELSE c

\* OpenAIRealtimeConnection.send: the message is dropped unless the socket is OPEN.
send(c, type) == IF c.ws /\ c.sock = "open" THEN transmitted(c, type) ELSE c

\* OpenAIRealtimeConnection.disconnect
disconnect(c) ==
    IF c.ws THEN [c EXCEPT !.sock = wsClose(c.sock), !.ws = FALSE, !.disconnects = c.disconnects + 1]
    ELSE [c EXCEPT !.disconnects = c.disconnects + 1]

\* A callback of the owner is being invoked by connection c.
delivered(c) == [c EXCEPT !.late = c.late \/ c.disconnects > 0]

\* ------------------------------------------------------------ CallInterface: cleanup, endCall
\* cleanup, on the connection objects.
cleanupConn(cs) ==
    IF connectionRef # 0 THEN [cs EXCEPT ![connectionRef] = disconnect(cs[connectionRef])] ELSE cs

\* cleanup, on the audio processors.
cleanupAp(as) ==
    IF audioProcessorRef # 0 THEN [as EXCEPT ![audioProcessorRef] = apCleanup(as[audioProcessorRef])] ELSE as

\* The connect operation of attempt a has neither completed nor failed: answerCall is
\* at an await, or the handshake of its socket is under way.
Outstanding(a) == pc[a] \in {"fetch", "mic"} \/ conn[a].sock = "connecting"

\* cleanup that forgets to null connectionRef after disconnect().
cleanupKeepsRef(cs, as) ==
    /\ aborted' = [a \in Attempts |-> aborted[a] \/ (a = attempt /\ Outstanding(a))]
    /\ conn' = cleanupConn(cs)
    /\ connectionRef' = connectionRef
    /\ ap' = cleanupAp(as)
    /\ audioProcessorRef' = 0
    /\ debouncePending' = IF speakingTimeoutRef.set /\ speakingTimeoutRef.live
                          THEN debouncePending - 1 ELSE debouncePending
    /\ speakingTimeoutRef' = NoTimer

\* cleanup
cleanup(cs, as) ==
    /\ aborted' = [a \in Attempts |-> aborted[a] \/ (a = attempt /\ Outstanding(a))]
    /\ conn' = cleanupConn(cs)
    /\ connectionRef' = 0
    /\ ap' = cleanupAp(as)
    /\ audioProcessorRef' = 0
    /\ debouncePending' = IF speakingTimeoutRef.set /\ speakingTimeoutRef.live
                          THEN debouncePending - 1 ELSE debouncePending
    /\ speakingTimeoutRef' = NoTimer

CanSetEndTimer == Sum(endTimers) < MaxTimers

\* endCall: cleanup, ENDED, and the timer that returns to IDLE after 2 s.
endCall(cs, as) ==
    /\ CanSetEndTimer
    /\ cleanup(cs, as)
    /\ callState' = Set(ENDED, callState)
    /\ endTimers' = [endTimers EXCEPT ![attempt] = endTimers[attempt] + 1]

\* ------------------------------------------------------------ initial state
\* The component as it is constructed.
Idle ==
    /\ mounted = TRUE
    /\ callState = IDLE
    /\ error = ""
    /\ isAgentSpeaking = FALSE
    /\ connectionRef = 0
    /\ audioProcessorRef = 0
    /\ speakingTimeoutRef = NoTimer
    /\ debouncePending = 0
    /\ endTimers = [e \in Epochs |-> 0]
    /\ attempt = 0
    /\ pc = [a \in Attempts |-> "none"]
    /\ aborted = [a \in Attempts |-> FALSE]
    /\ uncaught = FALSE
    /\ conn = [a \in Attempts |-> NoConn]
    /\ ap = [a \in Attempts |-> NoAp]
    /\ trail = <<>>
    /\ phases = <<>>

Init ==
    /\ apiKey \in {"missing", "malformed", "ok"}
    /\ Idle
    /\ proc = NoProc
    /\ store = NoStore
    /\ http = NoHttp
    /\ editor = NoEditor
    /\ reqs = NoReqs
    /\ auth = NoAuth

\* ------------------------------------------------------------ user actions
\* startCall: the button is rendered in IDLE. At most limit calls are started.
startCallWithin(limit) ==
    /\ mounted /\ callState = IDLE
    /\ attempt < limit
    /\ attempt' = attempt + 1
    /\ callState' = RINGING
    /\ error' = ""
    /\ UNCHANGED <<apiKey, proc, store, http, editor, reqs, auth, aborted, uncaught, mounted, isAgentSpeaking, connectionRef, audioProcessorRef,
                   speakingTimeoutRef, debouncePending, endTimers, pc, conn, ap>>
    /\ Observe("startCall")

startCall ==
    /\ attempt < MaxCalls
    /\ startCallWithin(MaxCalls)

\* startCall, for the calls after the first MaxCalls.
startCallLater ==
    /\ attempt >= MaxCalls
    /\ startCallWithin(MaxAttempts)

\* declineCall: the button is rendered in RINGING.
declineCall ==
    /\ mounted /\ callState = RINGING
    /\ callState' = IDLE
    /\ UNCHANGED <<apiKey, proc, store, http, editor, reqs, auth, aborted, uncaught, mounted, error, isAgentSpeaking, connectionRef, audioProcessorRef,
                   speakingTimeoutRef, debouncePending, endTimers, attempt, pc, conn, ap>>
    /\ Observe("declineCall")

\* answerCall up to its first await: CONNECTING, and the fetch of the configuration starts.
answerCall ==
    /\ mounted /\ callState = RINGING
    /\ pc[attempt] = "none"
    /\ callState' = CONNECTING
    /\ pc' = [pc EXCEPT ![attempt] = "fetch"]
    /\ UNCHANGED <<apiKey, proc, store, http, editor, reqs, auth, aborted, uncaught, mounted, error, isAgentSpeaking, connectionRef, audioProcessorRef,
                   speakingTimeoutRef, debouncePending, endTimers, attempt, conn, ap>>
    /\ Observe("answerCall")

\* A catch block that forgets setError.
answerCallCatchNoError(a, msg) ==
    /\ error' = error
    /\ callState' = Set(IDLE, callState)
    /\ pc' = [pc EXCEPT ![a] = "failed"]

\* The catch block of answerCall.
answerCallCatch(a, msg) ==
    /\ error' = Set(msg, error)
    /\ callState' = Set(IDLE, callState)
    /\ pc' = [pc EXCEPT ![a] = "failed"]

\* answerCall resumes after the fetch: a new AudioProcessor, and getUserMedia starts.
configLoaded(a) ==
    /\ pc[a] = "fetch"
    /\ audioProcessorRef' = a
    /\ ap' = [ap EXCEPT ![a] = [NoAp EXCEPT !.made = TRUE]]
    /\ pc' = [pc EXCEPT ![a] = "mic"]
    /\ UNCHANGED <<apiKey, proc, store, http, editor, reqs, auth, aborted, uncaught, mounted, callState, error, isAgentSpeaking, connectionRef,
                   speakingTimeoutRef, debouncePending, endTimers, attempt, conn>>
    /\ Observe("configLoaded")

\* The fetch (or the parse of its body) fails: the catch block runs.
configFailed(a) ==
    /\ pc[a] = "fetch"
    /\ answerCallCatch(a, MsgFetchFailed)
    /\ UNCHANGED <<apiKey, proc, store, http, editor, reqs, auth, aborted, uncaught, mounted, isAgentSpeaking, connectionRef, audioProcessorRef,
                   speakingTimeoutRef, debouncePending, endTimers, attempt, conn, ap>>
    /\ Observe("configFailed")

\* OpenAIRealtimeConnection.connect: the socket is created, or the constructor of
\* WebSocket throws (a key that is no sub-protocol token) and this.ws stays null.
connect(c) ==
    IF apiKey = "malformed" THEN c ELSE [c EXCEPT !.ws = TRUE, !.sock = "connecting"]

\* getUserMedia resolves: the processor of the attempt holds the stream; then the key
\* check, the new connection and connect().
micGranted(a) ==
    /\ pc[a] = "mic"
    /\ ap' = [ap EXCEPT ![a].mediaStream = TRUE]
    /\ IF apiKey = "missing"
       THEN /\ answerCallCatch(a, MsgNoApiKey)
            /\ UNCHANGED <<connectionRef, conn>>
       ELSE /\ connectionRef' = a
            /\ conn' = [conn EXCEPT ![a] = connect([NoConn EXCEPT !.made = TRUE])]
            /\ IF apiKey = "malformed"
               THEN answerCallCatch(a, MsgBadProtocol)
               ELSE /\ pc' = [pc EXCEPT ![a] = "done"]
                    /\ UNCHANGED <<callState, error>>
    /\ UNCHANGED <<apiKey, proc, store, http, editor, reqs, auth, aborted, uncaught, mounted, isAgentSpeaking, audioProcessorRef,
                   speakingTimeoutRef, debouncePending, endTimers, attempt>>
    /\ Observe("micGranted")

\* A denied microphone after which the connection is constructed all the same.
micDeniedStillConnects(a) ==
    /\ pc[a] = "mic"
    /\ answerCallCatch(a, MsgMicDenied)
    /\ connectionRef' = a
    /\ conn' = [conn EXCEPT ![a] = connect([NoConn EXCEPT !.made = TRUE])]
    /\ UNCHANGED <<apiKey, proc, store, http, editor, reqs, auth, aborted, uncaught, mounted, isAgentSpeaking, audioProcessorRef,
                   speakingTimeoutRef, debouncePending, endTimers, attempt, ap>>
    /\ Observe("micDenied")

\* getUserMedia rejects: requestMicrophoneAccess throws, the catch block runs.
micDenied(a) ==
    /\ pc[a] = "mic"
    /\ answerCallCatch(a, MsgMicDenied)
    /\ UNCHANGED <<apiKey, proc, store, http, editor, reqs, auth, aborted, uncaught, mounted, isAgentSpeaking, connectionRef, audioProcessorRef,
                   speakingTimeoutRef, debouncePending, endTimers, attempt, conn, ap>>
    /\ Observe("micDenied")

\* The hang-up button, rendered in USER_SPEAKING, AGENT_SPEAKING and CONVERSATION.
hangUp ==
    /\ mounted /\ callState \in InCallPhases
    /\ endCall(conn, ap)
    /\ UNCHANGED <<apiKey, proc, store, http, editor, reqs, auth, uncaught, mounted, error, isAgentSpeaking, attempt, pc>>
    /\ Observe("endCall")

\* The button that dismisses the error message.
dismissError ==
    /\ mounted /\ error # ""
    /\ error' = ""
    /\ UNCHANGED <<apiKey, proc, store, http, editor, reqs, auth, aborted, uncaught, mounted, callState, isAgentSpeaking, connectionRef, audioProcessorRef,
                   speakingTimeoutRef, debouncePending, endTimers, attempt, pc, conn, ap>>
    /\ Observe("dismissError")

\* The effect's destructor: cleanup on unmount.
unmount ==
    /\ mounted
    /\ mounted' = FALSE
    /\ cleanup(conn, ap)
    /\ UNCHANGED <<apiKey, proc, store, http, editor, reqs, auth, uncaught, callState, error, isAgentSpeaking, endTimers, attempt, pc>>
    /\ Observe("unmount")

\* ------------------------------------------------------------ owner callbacks
\* onError: setError, endCall.
onError(a, msg, cs) ==
    /\ error' = Set(msg, error)
    /\ endCall([cs EXCEPT ![a] = [delivered(cs[a]) EXCEPT !.errored = TRUE]], ap)
    /\ UNCHANGED <<apiKey, proc, store, http, editor, reqs, auth, uncaught, mounted, isAgentSpeaking, attempt, pc>>

\* onConnectionEstablished: USER_SPEAKING, and the capture starts on the processor held.
onConnectionEstablished(a, cs) ==
    /\ callState' = Set(USER_SPEAKING, callState)
    /\ ap' = IF audioProcessorRef # 0
             THEN [ap EXCEPT ![audioProcessorRef] = startCapture(ap[audioProcessorRef])]
             ELSE ap
    /\ uncaught' = (uncaught \/ (audioProcessorRef # 0 /\ ~ap[audioProcessorRef].mediaStream))
    /\ conn' = [cs EXCEPT ![a] = [delivered(cs[a]) EXCEPT !.established = TRUE]]
    /\ UNCHANGED <<apiKey, proc, store, http, editor, reqs, auth, aborted, mounted, error, isAgentSpeaking, connectionRef, audioProcessorRef,
                   speakingTimeoutRef, debouncePending, endTimers, attempt, pc>>

\* onAgentSpeaking that sets a new debounce timer without clearing the one pending.
onAgentSpeakingNoClear(a, cs) ==
    /\ ap' = IF audioProcessorRef # 0
             THEN [ap EXCEPT ![audioProcessorRef] = playAudioDelta(ap[audioProcessorRef])]
             ELSE ap
    /\ isAgentSpeaking' = Set(TRUE, isAgentSpeaking)
    /\ callState' = Set(AGENT_SPEAKING, callState)
    /\ debouncePending' = IF debouncePending < 2 THEN debouncePending + 1 ELSE debouncePending
    /\ speakingTimeoutRef' = [set |-> TRUE, live |-> TRUE, ep |-> attempt]
    /\ conn' = [cs EXCEPT ![a] = delivered(cs[a])]
    /\ UNCHANGED <<apiKey, proc, store, http, editor, reqs, auth, aborted, uncaught, mounted, error, connectionRef, audioProcessorRef,
                   endTimers, attempt, pc>>

\* onAudioDelta, then onAgentSpeaking: AGENT_SPEAKING, and the debounce timer is set anew.
onAgentSpeaking(a, cs) ==
    /\ ap' = IF audioProcessorRef # 0
             THEN [ap EXCEPT ![audioProcessorRef] = playAudioDelta(ap[audioProcessorRef])]
             ELSE ap
    /\ isAgentSpeaking' = Set(TRUE, isAgentSpeaking)
    /\ callState' = Set(AGENT_SPEAKING, callState)
    /\ debouncePending' = (IF speakingTimeoutRef.set /\ speakingTimeoutRef.live
                           THEN debouncePending - 1 ELSE debouncePending) + 1
    /\ speakingTimeoutRef' = [set |-> TRUE, live |-> TRUE, ep |-> attempt]
    /\ conn' = [cs EXCEPT ![a] = delivered(cs[a])]
    /\ UNCHANGED <<apiKey, proc, store, http, editor, reqs, auth, aborted, uncaught, mounted, error, connectionRef, audioProcessorRef,
                   endTimers, attempt, pc>>

\* onAgentFinished that forgets setCallState(CONVERSATION).
onAgentFinishedKeepsPhase(a, cs) ==
    /\ isAgentSpeaking' = Set(FALSE, isAgentSpeaking)
    /\ callState' = callState
    /\ conn' = [cs EXCEPT ![a] = delivered(cs[a])]
    /\ UNCHANGED <<apiKey, proc, store, http, editor, reqs, auth, aborted, uncaught, mounted, error, connectionRef, audioProcessorRef,
                   speakingTimeoutRef, debouncePending, endTimers, attempt, pc, ap>>

\* onAgentFinished: CONVERSATION.
onAgentFinished(a, cs) ==
    /\ isAgentSpeaking' = Set(FALSE, isAgentSpeaking)
    /\ callState' = Set(CONVERSATION, callState)
    /\ conn' = [cs EXCEPT ![a] = delivered(cs[a])]
    /\ UNCHANGED <<apiKey, proc, store, http, editor, reqs, auth, aborted, uncaught, mounted, error, connectionRef, audioProcessorRef,
                   speakingTimeoutRef, debouncePending, endTimers, attempt, pc, ap>>

\* ------------------------------------------------------------ socket events
\* ws.onopen: sendSessionUpdate, which ends by calling onConnectionEstablished.
wsOpen(a) ==
    /\ conn[a].sock = "connecting"
    /\ onConnectionEstablished(a, [conn EXCEPT ![a] = send([conn[a] EXCEPT !.sock = "open"], "session.update")])
    /\ Observe("onConnectionEstablished")

\* An audio delta handled while the handshake is still under way.
wsAudioDeltaEarly(a) ==
    /\ conn[a].sock \in SockLive
    /\ onAgentSpeaking(a, conn)
    /\ Observe("onAgentSpeaking")

\* ws.onmessage, response.audio.delta
wsAudioDelta(a) ==
    /\ conn[a].sock = "open"
    /\ onAgentSpeaking(a, conn)
    /\ Observe("onAgentSpeaking")

\* ws.onmessage, response.audio.done
wsAudioDone(a) ==
    /\ conn[a].sock = "open"
    /\ onAgentFinished(a, conn)
    /\ Observe("onAgentFinished")

\* ws.onmessage, error
wsErrorMessage(a) ==
    /\ conn[a].sock = "open"
    /\ onError(a, MsgServerError, conn)
    /\ Observe("onError")

\* ws.onerror, then ws.onclose: the connection failed (the handshake, the network, a
\* protocol error, or close() called before the socket was open).
wsError(a) ==
    /\ conn[a].sock \in {"connecting", "open", "closing", "closingFail"}
    /\ onError(a, MsgWsError, [conn EXCEPT ![a].sock = "closed"])
    /\ Observe("onError")

\* An onclose handler that opens the socket again.
wsClosedReconnects(a) ==
    /\ conn[a].sock \in {"open", "closing"}
    /\ conn' = [conn EXCEPT ![a].sock = "connecting", ![a].ws = TRUE]
    /\ UNCHANGED <<apiKey, proc, store, http, editor, reqs, auth, aborted, uncaught, mounted, callState, error, isAgentSpeaking, connectionRef,
                   audioProcessorRef, speakingTimeoutRef, debouncePending, endTimers,
                   attempt, pc, ap>>
    /\ Observe("onclose")

\* ws.onclose without an error event: the server closed, or the close handshake ended.
wsClosed(a) ==
    /\ conn[a].sock \in {"open", "closing"}
    /\ conn' = [conn EXCEPT ![a].sock = "closed"]
    /\ UNCHANGED <<apiKey, proc, store, http, editor, reqs, auth, aborted, uncaught, mounted, callState, error, isAgentSpeaking, connectionRef,
                   audioProcessorRef, speakingTimeoutRef, debouncePending, endTimers,
                   attempt, pc, ap>>
    /\ Observe("onclose")

\* OpenAIRealtimeConnection.sendAudio, called on a connection constructed (the capture
\* callback of startCapture calls it on the connection held by connectionRef).
sendAudio(a) ==
    /\ conn[a].made
    /\ conn' = [conn EXCEPT ![a] = send(conn[a], "input_audio_buffer.append")]
    /\ UNCHANGED <<apiKey, proc, store, http, editor, reqs, auth, aborted, uncaught, mounted, callState, error, isAgentSpeaking, connectionRef,
                   audioProcessorRef, speakingTimeoutRef, debouncePending, endTimers,
                   attempt, pc, ap, trail, phases>>

\* OpenAIRealtimeConnection.commitAudio, called on a connection constructed.
commitAudio(a) ==
    /\ conn[a].made
    /\ conn' = [conn EXCEPT ![a] = send(conn[a], "input_audio_buffer.commit")]
    /\ UNCHANGED <<apiKey, proc, store, http, editor, reqs, auth, aborted, uncaught, mounted, callState, error, isAgentSpeaking, connectionRef,
                   audioProcessorRef, speakingTimeoutRef, debouncePending, endTimers,
                   attempt, pc, ap, trail, phases>>

\* ------------------------------------------------------------ timers
\* The debounce timer of onAgentSpeaking fires (500 ms).
debounceTimer ==
    /\ debouncePending > 0
    /\ debouncePending' = debouncePending - 1
    /\ speakingTimeoutRef' = IF speakingTimeoutRef.live
                             THEN [speakingTimeoutRef EXCEPT !.live = FALSE]
                             ELSE speakingTimeoutRef
    /\ isAgentSpeaking' = Set(FALSE, isAgentSpeaking)
    /\ callState' = Set(CONVERSATION, callState)
    /\ UNCHANGED <<apiKey, proc, store, http, editor, reqs, auth, aborted, uncaught, mounted, error, connectionRef, audioProcessorRef,
                   endTimers, attempt, pc, conn, ap>>
    /\ Observe("debounceTimer")

\* A timer of endCall fires (2 s): IDLE, and the error is cleared. Timers of the same
\* delay fire in the order they were set.
endTimer(e) ==
    /\ endTimers[e] > 0
    /\ \A e2 \in Epochs : e2 < e => endTimers[e2] = 0
    /\ endTimers' = [endTimers EXCEPT ![e] = endTimers[e] - 1]
    /\ callState' = Set(IDLE, callState)
    /\ error' = Set("", error)
    /\ UNCHANGED <<apiKey, proc, store, http, editor, reqs, auth, aborted, uncaught, mounted, isAgentSpeaking, connectionRef, audioProcessorRef,
                   speakingTimeoutRef, debouncePending, attempt, pc, conn, ap>>
    /\ Observe("endTimer")

\* ------------------------------------------------------------ specification
Next ==
    \/ startCall
    \/ declineCall
    \/ answerCall
    \/ hangUp
    \/ dismissError
    \/ unmount
    \/ debounceTimer
    \/ \E e \in Epochs : endTimer(e)
    \/ \E a \in Attempts : configLoaded(a)
    \/ \E a \in Attempts : configFailed(a)
    \/ \E a \in Attempts : micGranted(a)
    \/ \E a \in Attempts : micDenied(a)
    \/ \E a \in Attempts : wsOpen(a)
    \/ \E a \in Attempts : wsAudioDelta(a)
    \/ \E a \in Attempts : wsAudioDone(a)
    \/ \E a \in Attempts : wsErrorMessage(a)
    \/ \E a \in Attempts : wsError(a)
    \/ \E a \in Attempts : wsClosed(a)

Spec == Init /\ [][Next]_vars

\* The runs of up to MaxAttempts calls.
NextCalls == Next \/ startCallLater

SpecCalls == Init /\ [][NextCalls]_vars

\* The component together with the calls of sendAudio and commitAudio.
NextSend ==
    \/ Next
    \/ \E a \in Attempts : sendAudio(a)
    \/ \E a \in Attempts : commitAudio(a)

SpecSend == Init /\ [][NextSend]_vars

\* The timers of setTimeout fire once their delay has elapsed.
SpecTimers ==
    /\ Spec
    /\ WF_vars(debounceTimer)
    /\ \A e \in Epochs : WF_vars(endTimer(e))

\* ------------------------------------------------------------ a teardown step that throws
\* The hang-up button when a step of cleanup throws: the exception leaves cleanup and
\* endCall at that statement and is not caught. which = "disconnect": the call
\* connectionRef.current.disconnect() throws; which = "release": the call
\* audioProcessorRef.current.cleanup() throws.
hangUpThrows(which) ==
    /\ mounted /\ callState \in InCallPhases
    /\ IF which = "disconnect"
       THEN /\ connectionRef # 0
            /\ UNCHANGED <<conn, connectionRef, aborted>>
       ELSE /\ audioProcessorRef # 0
            /\ aborted' = [a \in Attempts |-> aborted[a] \/ (a = attempt /\ Outstanding(a))]
            /\ conn' = cleanupConn(conn)
            /\ connectionRef' = 0
    /\ uncaught' = TRUE
    /\ UNCHANGED <<apiKey, proc, store, http, editor, reqs, auth, mounted, callState, error, isAgentSpeaking, audioProcessorRef,
                   speakingTimeoutRef, debouncePending, endTimers, attempt, pc, ap>>
    /\ Observe("endCall")

NextThrows == Next \/ \E which \in {"disconnect", "release"} : hangUpThrows(which)

SpecThrows == Init /\ [][NextThrows]_vars

TypeOK ==
    /\ callState \in CallState
    /\ connectionRef \in 0..MaxAttempts
    /\ audioProcessorRef \in 0..MaxAttempts
    /\ attempt \in Epochs

\* ------------------------------------------------------------ AudioProcessor, by itself
\* One AudioProcessor object and the browser resources it acquired. The methods are
\* called as the component calls them: requestMicrophoneAccess once, after the
\* constructor; startCapture from onConnectionEstablished and playAudioDelta from
\* onAudioDelta, whenever a connection that was handed the callbacks reports; cleanup
\* at any time.

\* Number of AudioContext objects one AudioProcessor creates in the runs explored.
MaxContexts == 2
\* Number of buffer sources queued at the same time.
MaxQueue == 2
\* Number of release calls in a row.
MaxReleases == 3

\* The variables of the component.
callVars == <<apiKey, mounted, callState, error, isAgentSpeaking,
              connectionRef, audioProcessorRef, speakingTimeoutRef, debouncePending,
              endTimers, attempt, pc, aborted, uncaught, conn, ap, trail, phases>>

\* new AudioProcessor(): the fields mediaStream, sourceNode, scriptProcessor,
\* audioContext (set or null), audioQueue (its length) and nextStartTime (0, or 1 for a
\* later time). Observers: mic (the state of the getUserMedia request), openTracks,
\* openContexts and liveGraphs (the tracks not stopped, the contexts not closed and the
\* source -> processor -> destination graphs not disconnected), threw (the last call
\* threw), last (the last call) and releases (the release calls in a row).
NewProc ==
    [made |-> TRUE, mic |-> "none", mediaStream |-> FALSE, sourceNode |-> FALSE,
     scriptProcessor |-> FALSE, audioContext |-> FALSE, audioQueue |-> 0,
     nextStartTime |-> 0, openTracks |-> 0, openContexts |-> 0, liveGraphs |-> 0,
     threw |-> FALSE, last |-> "new", releases |-> 0]

\* AudioProcessor.startCapture: throws without a stream; otherwise a new context and
\* new nodes are stored over whatever the fields held.
startCaptureOf(p) ==
    IF ~p.mediaStream THEN [p EXCEPT !.threw = TRUE]
    ELSE [p EXCEPT !.audioContext = TRUE, !.openContexts = @ + 1,
                   !.sourceNode = TRUE, !.scriptProcessor = TRUE, !.liveGraphs = @ + 1]

\* AudioProcessor.stopCapture: each field that is set is released and nulled.
stopCaptureOf(p) ==
    [p EXCEPT !.scriptProcessor = FALSE, !.sourceNode = FALSE,
              !.liveGraphs = IF p.sourceNode \/ p.scriptProcessor THEN @ - 1 ELSE @,
              !.audioContext = FALSE,
              !.openContexts = IF p.audioContext THEN @ - 1 ELSE @,
              !.mediaStream = FALSE,
              !.openTracks = IF p.mediaStream THEN 0 ELSE @]

\* AudioProcessor.playAudioDelta: a context is created when there is none; the source
\* is scheduled and queued.
playAudioDeltaOf(p) ==
    [p EXCEPT !.audioContext = TRUE,
              !.openContexts = IF p.audioContext THEN @ ELSE @ + 1,
              !.audioQueue = @ + 1,
              !.nextStartTime = 1]

\* AudioProcessor.stopPlayback: source.stop() is wrapped in try/catch.
stopPlaybackOf(p) == [p EXCEPT !.audioQueue = 0, !.nextStartTime = 0]

\* AudioProcessor.cleanup
cleanupOf(p) ==
    LET q == stopPlaybackOf(stopCaptureOf(p))
    IN [q EXCEPT !.audioContext = FALSE,
                 !.openContexts = IF q.audioContext THEN @ - 1 ELSE @]

\* A call of method op that turns the object p into q.
Called(op, q) ==
    /\ proc.made
    /\ proc' = [q EXCEPT !.last = op,
                         !.releases = IF op \in {"cleanup", "stopCapture"} /\ op = proc.last
                                      THEN @ + 1
                                      ELSE IF op \in {"cleanup", "stopCapture"} THEN 1 ELSE 0]
    /\ UNCHANGED <<callVars, store, http, editor, reqs, auth>>

requestMicrophoneAccess ==
    /\ proc.made /\ proc.mic = "none"
    /\ Called("requestMicrophoneAccess", [proc EXCEPT !.mic = "pending", !.threw = FALSE])

\* getUserMedia resolves: the stream is stored, whatever was called in the meantime.
getUserMediaResolves ==
    /\ proc.made /\ proc.mic = "pending"
    /\ Called("granted", [proc EXCEPT !.mic = "granted", !.mediaStream = TRUE,
                                      !.openTracks = 1, !.threw = FALSE])

\* getUserMedia rejects: requestMicrophoneAccess rejects with 'Mikrofonzugriff verweigert'.
getUserMediaRejects ==
    /\ proc.made /\ proc.mic = "pending"
    /\ Called("denied", [proc EXCEPT !.mic = "denied", !.threw = TRUE])

callStartCapture ==
    /\ proc.made /\ proc.openContexts < MaxContexts
    /\ Called("startCapture", startCaptureOf([proc EXCEPT !.threw = FALSE]))

callPlayAudioDelta ==
    /\ proc.made /\ proc.audioQueue < MaxQueue
    /\ proc.audioContext \/ proc.openContexts < MaxContexts
    /\ Called("playAudioDelta", playAudioDeltaOf([proc EXCEPT !.threw = FALSE]))

callStopCapture ==
    /\ proc.made /\ (proc.last = "stopCapture" => proc.releases < MaxReleases)
    /\ Called("stopCapture", stopCaptureOf([proc EXCEPT !.threw = FALSE]))

callCleanup ==
    /\ proc.made /\ (proc.last = "cleanup" => proc.releases < MaxReleases)
    /\ Called("cleanup", cleanupOf([proc EXCEPT !.threw = FALSE]))

InitAudio ==
    /\ apiKey = "ok"
    /\ Idle
    /\ proc = NewProc
    /\ store = NoStore
    /\ http = NoHttp
    /\ editor = NoEditor
    /\ reqs = NoReqs
    /\ auth = NoAuth

NextAudio ==
    \/ requestMicrophoneAccess
    \/ getUserMediaResolves
    \/ getUserMediaRejects
    \/ callStartCapture
    \/ callPlayAudioDelta
    \/ callStopCapture
    \/ callCleanup

SpecAudio == InitAudio /\ [][NextAudio]_vars

\* ------------------------------------------------------------ the server: simulator profiles
\* A slug or a colour is the sequence of its characters; the other texts are strings.
\* The time stamps createdAt and updatedAt of the metadata are left out.
Lower == {"a", "b", "c", "d", "e", "f", "g", "h", "i", "j", "k", "l", "m",
          "n", "o", "p", "q", "r", "s", "t", "u", "v", "w", "x", "y", "z"}
Digit == {"0", "1", "2", "3", "4", "5", "6", "7", "8", "9"}
HexDigit == Digit \cup {"A", "B", "C", "D", "E", "F", "a", "b", "c", "d", "e", "f"}

\* /^#([0-9A-Fa-f]{3}|[0-9A-Fa-f]{6})$/
isValidHexColor(color) ==
    /\ Len(color) \in {4, 7}
    /\ color[1] = "#"
    /\ \A i \in 2..Len(color) : color[i] \in HexDigit

\* /^[a-z0-9]([a-z0-9-]{0,48}[a-z0-9])?$/ or /^[a-z0-9]$/
isValidSlug(slug) ==
    /\ Len(slug) >= 1
    /\ slug[1] \in Lower \cup Digit
    /\ Len(slug) >= 2 =>
         /\ Len(slug) <= 50
         /\ slug[Len(slug)] \in Lower \cup Digit
         /\ \A i \in 2..(Len(slug) - 1) : slug[i] \in Lower \cup Digit \cup {"-"}

\* String.prototype.trim, on the texts of the requests explored.
Trim(s) == IF s = " " THEN "" ELSE s

\* body.f || d, for a text and for a number.
OrText(b, f, d) == IF f \in DOMAIN b /\ b[f] # "" THEN b[f] ELSE d
OrNumber(b, f, d) == IF f \in DOMAIN b /\ b[f] # 0 THEN b[f] ELSE d

\* { ...d, ...o }
Spread(d, o) == [f \in DOMAIN d \cup DOMAIN o |-> IF f \in DOMAIN o THEN o[f] ELSE d[f]]

\* The object b without its property f.
Without(b, f) == [g \in DOMAIN b \ {f} |-> b[g]]

ContactTones == {"Formal", "Casual", "Friendly"}

DEFAULT_ACCENT_COLOR == <<"#", "C", "4", "1", "E", "3", "A">>
Drk == <<"d", "r", "k">>

\* generateSystemPrompt: the template, cut down to its first two sentences.
generateSystemPrompt(config) ==
    "Du heisst " \o OrText(config, "agentName", "undefined") \o ". Gerade rufst du "
        \o OrText(config, "donorName", "undefined") \o " an."

DEFAULT_PROMPT_CONFIG ==
    [agentName |-> "Sarah", donorName |-> "Max Mustermann", currentAmount |-> 20,
     targetAmount |-> 35, donationHistory |-> "2 Jahre", contactTone |-> "Friendly",
     additionalInstructions |-> "", voice |-> "marin"]

\* The metadata of the seeded and of the migrated simulator.
defaultMetadata ==
    [slug |-> Drk, title |-> "DRK Anrufsimulator",
     subtitle |-> "Trainingsumgebung", accentColor |-> DEFAULT_ACCENT_COLOR]

\* createDefaultSimulatorConfig, and defaultConfig of the list handler.
createDefaultSimulatorConfig ==
    Spread(DEFAULT_PROMPT_CONFIG,
           [systemPrompt |-> generateSystemPrompt(DEFAULT_PROMPT_CONFIG),
            metadata |-> defaultMetadata])

\* kv.get, kv.set and kv.del on the simulator configs; Map.get, set and delete of the
\* development server.
kvHas(st, slug) == slug \in DOMAIN st.configs
kvSet(st, slug, config) ==
    [st EXCEPT !.configs = [k \in DOMAIN st.configs \cup {slug} |->
                               IF k = slug THEN config ELSE st.configs[k]]]
\* kv.del that deletes nothing.
kvDelNothing(st, slug) == st

kvDel(st, slug) ==
    [st EXCEPT !.configs = [k \in DOMAIN st.configs \ {slug} |-> st.configs[k]]]

\* Array.prototype.filter and map on the simulators of the index.
RECURSIVE filterOut(_, _)
filterOut(sims, slugs) ==
    IF sims = <<>> THEN <<>>
    ELSE IF Head(sims).slug \in slugs THEN filterOut(Tail(sims), slugs)
    ELSE <<Head(sims)>> \o filterOut(Tail(sims), slugs)

replaceMeta(sims, slug, meta) ==
    [i \in 1..Len(sims) |-> IF sims[i].slug = slug THEN meta ELSE sims[i]]

IndexSlugs(st) == {st.simulators[i].slug : i \in 1..Len(st.simulators)}

\* The answer of a handler: the status of the response and the store it leaves.
Answer(status, st) == [status |-> status, store |-> st]

\* new Date().toISOString(): the stores explored with a clock (now) carry createdAt
\* and updatedAt in the metadata, the others leave the two fields out.
\* createdAt: existingConfig?.metadata.createdAt || now.
MaxClock == 3

Stamp(st, slug, meta) ==
    IF "now" \notin DOMAIN st THEN meta
    ELSE Spread(meta,
                [createdAt |-> IF kvHas(st, slug) /\ "createdAt" \in DOMAIN st.configs[slug].metadata
                               THEN st.configs[slug].metadata.createdAt ELSE st.now,
                 updatedAt |-> st.now])

\* Time passes between two requests.
Tick(st) ==
    IF "now" \in DOMAIN st /\ st.now < MaxClock THEN [st EXCEPT !.now = st.now + 1] ELSE st

\* The index after a save that leaves the entry of the old slug in place.
updatedIndexKeepsOld(st, slug, newSlug, meta, isNew, slugChanged) ==
    [st EXCEPT !.simulators =
                  IF slugChanged \/ isNew
                  THEN Append(filterOut(st.simulators, {newSlug}), meta)
                  ELSE replaceMeta(st.simulators, slug, meta)]

\* The index after a simulator was saved (handleUpdate and the development server).
updatedIndex(st, slug, newSlug, meta, isNew, slugChanged) ==
    [st EXCEPT !.simulators =
                  IF slugChanged \/ isNew
                  THEN Append(filterOut(st.simulators, {slug, newSlug}), meta)
                  ELSE replaceMeta(st.simulators, slug, meta)]

\* handleUpdate of the deployed server (the same checks and the same document in
\* api/simulators/[slug]/update.ts, which answers 500 when there is no index).
handleUpdate(st, slug, body) ==
    IF "agentName" \notin DOMAIN body \/ Trim(body.agentName) = "" THEN Answer(400, st)
    ELSE IF "donorName" \notin DOMAIN body \/ Trim(body.donorName) = "" THEN Answer(400, st)
    ELSE IF "currentAmount" \notin DOMAIN body \/ body.currentAmount <= 0 THEN Answer(400, st)
    ELSE IF "targetAmount" \notin DOMAIN body \/ body.targetAmount <= body.currentAmount
         THEN Answer(400, st)
    ELSE IF OrText(body, "contactTone", "") \notin ContactTones THEN Answer(400, st)
    ELSE IF "systemPrompt" \notin DOMAIN body \/ Len(body.systemPrompt) < 10 THEN Answer(400, st)
    ELSE IF "metadata" \notin DOMAIN body THEN Answer(400, st)
    ELSE IF Trim(body.metadata.title) = "" THEN Answer(400, st)
    ELSE IF Trim(body.metadata.subtitle) = "" THEN Answer(400, st)
    ELSE IF ~isValidHexColor(body.metadata.accentColor) THEN Answer(400, st)
    ELSE
      LET index == IF st.index THEN st
                   ELSE [st EXCEPT !.index = TRUE, !.simulators = <<>>, !.defaultSlug = <<>>]
          isNew == ~kvHas(st, slug)
          newSlug == body.metadata.slug
          slugChanged == ~isNew /\ newSlug # slug
      IN IF ~isValidSlug(newSlug) THEN Answer(400, st)
         ELSE IF slugChanged /\ kvHas(st, newSlug) THEN Answer(400, st)
         ELSE IF isNew /\ kvHas(st, newSlug) THEN Answer(400, st)
         ELSE
           LET config ==
                 [agentName |-> body.agentName, donorName |-> body.donorName,
                  currentAmount |-> body.currentAmount, targetAmount |-> body.targetAmount,
                  donationHistory |-> OrText(body, "donationHistory", ""),
                  contactTone |-> body.contactTone,
                  additionalInstructions |-> OrText(body, "additionalInstructions", ""),
                  voice |-> OrText(body, "voice", "marin"),
                  systemPrompt |-> body.systemPrompt,
                  metadata |-> Stamp(st, slug,
                                     [slug |-> newSlug, title |-> body.metadata.title,
                                      subtitle |-> body.metadata.subtitle,
                                      accentColor |-> body.metadata.accentColor])]
               saved == kvSet(index, newSlug, config)
               moved == IF slugChanged THEN kvDel(saved, slug) ELSE saved
               listed == updatedIndex(moved, slug, newSlug, config.metadata, isNew, slugChanged)
               first == IF listed.defaultSlug = <<>> /\ Len(listed.simulators) > 0
                        THEN [listed EXCEPT !.defaultSlug = newSlug] ELSE listed
           IN Answer(200, IF slugChanged /\ index.defaultSlug = slug
                          THEN [first EXCEPT !.defaultSlug = newSlug] ELSE first)

\* handleDelete that leaves defaultSlug as it was.
handleDeleteKeepsDefault(st, slug) ==
    IF ~st.index THEN Answer(500, st)
    ELSE IF slug \notin IndexSlugs(st) THEN Answer(404, st)
    ELSE IF Len(st.simulators) <= 1 THEN Answer(400, st)
    ELSE Answer(200, [kvDel(st, slug) EXCEPT !.simulators = filterOut(st.simulators, {slug})])

\* handleDelete of the deployed server (the same code in the delete handler).
handleDelete(st, slug) ==
    IF ~st.index THEN Answer(500, st)
    ELSE IF slug \notin IndexSlugs(st) THEN Answer(404, st)
    ELSE IF Len(st.simulators) <= 1 THEN Answer(400, st)
    ELSE LET updatedSimulators == filterOut(st.simulators, {slug})
             newDefaultSlug == IF st.defaultSlug = slug THEN updatedSimulators[1].slug
                               ELSE st.defaultSlug
         IN Answer(200, [kvDel(st, slug) EXCEPT !.simulators = updatedSimulators,
                                                !.defaultSlug = newDefaultSlug])

\* migrateFromOldConfig: the old configuration, spread over the defaults, is stored
\* as the simulator drk.
migrateFromOldConfig(st) ==
    LET merged == Spread(DEFAULT_PROMPT_CONFIG, st.oldConfig)
        simulatorConfig ==
            Spread(merged,
                   [systemPrompt |-> OrText(st.oldConfig, "systemPrompt",
                                            generateSystemPrompt(merged)),
                    metadata |-> defaultMetadata])
    IN [kvSet(st, Drk, simulatorConfig) EXCEPT !.index = TRUE,
                                              !.simulators = <<defaultMetadata>>,
                                              !.defaultSlug = Drk,
                                              !.old = FALSE, !.oldConfig = <<>>]

\* The list handler of the deployed server: the index, migrated or seeded when missing.
listHandler(st) ==
    IF st.index THEN Answer(200, st)
    ELSE IF st.old THEN Answer(200, migrateFromOldConfig(st))
    ELSE Answer(200, [kvSet(st, Drk, createDefaultSimulatorConfig)
                        EXCEPT !.index = TRUE, !.simulators = <<defaultMetadata>>,
                               !.defaultSlug = Drk])

\* POST /api/config/update of the deployed server.
legacyUpdate(st, config) ==
    IF OrText(config, "agentName", "") = "" \/ OrText(config, "donorName", "") = ""
    THEN Answer(400, st)
    ELSE IF "currentAmount" \in DOMAIN config /\ config.currentAmount <= 0 THEN Answer(400, st)
    ELSE IF /\ "currentAmount" \in DOMAIN config /\ "targetAmount" \in DOMAIN config
            /\ config.targetAmount <= config.currentAmount
         THEN Answer(400, st)
    ELSE IF OrText(config, "contactTone", "") \notin ContactTones THEN Answer(400, st)
    ELSE IF Len(Trim(OrText(config, "systemPrompt", ""))) < 10 THEN Answer(400, st)
    ELSE Answer(200, [st EXCEPT !.old = TRUE, !.oldConfig = config])

\* POST /api/simulators/[slug]/update of the development server.
devUpdate(st, slug, updates) ==
    IF Trim(OrText(updates, "agentName", "")) = "" THEN Answer(400, st)
    ELSE IF "metadata" \notin DOMAIN updates \/ Trim(updates.metadata.title) = ""
         THEN Answer(400, st)
    ELSE IF ~isValidHexColor(updates.metadata.accentColor) THEN Answer(400, st)
    ELSE
      LET newSlug == updates.metadata.slug
          isNew == ~kvHas(st, slug)
          slugChanged == ~isNew /\ newSlug # slug
      IN IF ~isValidSlug(newSlug) THEN Answer(400, st)
         ELSE IF (slugChanged \/ isNew) /\ kvHas(st, newSlug) /\ newSlug # slug
              THEN Answer(400, st)
         ELSE
           LET config ==
                 [agentName |-> OrText(updates, "agentName", "Sarah"),
                  donorName |-> OrText(updates, "donorName", "Max Mustermann"),
                  currentAmount |-> OrNumber(updates, "currentAmount", 20),
                  targetAmount |-> OrNumber(updates, "targetAmount", 35),
                  donationHistory |-> OrText(updates, "donationHistory", "2 Jahre"),
                  contactTone |-> OrText(updates, "contactTone", "Friendly"),
                  additionalInstructions |-> OrText(updates, "additionalInstructions", ""),
                  voice |-> OrText(updates, "voice", "marin"),
                  systemPrompt |-> OrText(updates, "systemPrompt", generateSystemPrompt(updates)),
                  metadata |-> Stamp(st, slug,
                                     [slug |-> newSlug, title |-> updates.metadata.title,
                                      subtitle |-> updates.metadata.subtitle,
                                      accentColor |-> updates.metadata.accentColor])]
               saved == kvSet(st, newSlug, config)
               moved == IF slugChanged THEN kvDel(saved, slug) ELSE saved
               listed == updatedIndex(moved, slug, newSlug, config.metadata, isNew, slugChanged)
           IN Answer(200, IF slugChanged /\ st.defaultSlug = slug
                          THEN [listed EXCEPT !.defaultSlug = newSlug] ELSE listed)

\* DELETE /api/simulators/[slug]/delete of the development server.
devDelete(st, slug) ==
    IF ~kvHas(st, slug) THEN Answer(404, st)
    ELSE IF Cardinality(DOMAIN st.configs) <= 1 THEN Answer(400, st)
    ELSE LET simulators == filterOut(st.simulators, {slug})
         IN Answer(200, [kvDel(st, slug) EXCEPT
                            !.simulators = simulators,
                            !.defaultSlug = IF st.defaultSlug = slug THEN simulators[1].slug
                                            ELSE st.defaultSlug])

\* POST /api/config/update of the development server: the body is spread over the
\* default simulator, whose metadata are kept.
devLegacyUpdate(st, updates) ==
    IF kvHas(st, st.defaultSlug)
    THEN LET existingConfig == st.configs[st.defaultSlug]
         IN Answer(200, kvSet(st, st.defaultSlug,
                              Spread(Spread(existingConfig, updates),
                                     [metadata |-> existingConfig.metadata])))
    ELSE Answer(200, st)

\* ------------------------------------------------------------ the server: requests explored
A1 == <<"a", "-", "1">>
B == <<"b">>

\* The slugs of the request paths.
Slugs == {Drk, A1, B}

\* A full profile document as the configuration page submits it (speechSpeed in
\* hundredths).
FullProfile(slug, title) ==
    [agentName |-> "Sarah", donorName |-> "Max Mustermann", currentAmount |-> 20,
     targetAmount |-> 35, donationHistory |-> "2 Jahre", contactTone |-> "Formal",
     additionalInstructions |-> "", voice |-> "coral", speechSpeed |-> 120,
     personas |-> <<[name |-> "Oma", prompt |-> "Du bist schwerhoerig."]>>,
     systemPrompt |-> "Du heisst Sarah.",
     metadata |-> [slug |-> slug, title |-> title, subtitle |-> "Training",
                   accentColor |-> <<"#", "f", "f", "f">>]]

Profiles == {FullProfile(slug, "Neu") : slug \in Slugs}

\* Documents whose amounts break targetAmount > currentAmount > 0.
BadAmounts ==
    {[FullProfile(Drk, "Neu") EXCEPT !.targetAmount = 20],
     [FullProfile(B, "Neu") EXCEPT !.targetAmount = 20],
     [FullProfile(B, "Neu") EXCEPT !.currentAmount = 0],
     [FullProfile(B, "Neu") EXCEPT !.currentAmount = 35, !.targetAmount = 20]}

\* Documents with another defect, and a document without a voice.
OtherBodies ==
    {[FullProfile(B, "Neu") EXCEPT !.systemPrompt = ""],
     [FullProfile(B, "Neu") EXCEPT !.systemPrompt = "Hallo"],
     [FullProfile(B, "Neu") EXCEPT !.agentName = ""],
     [FullProfile(B, "Neu") EXCEPT !.metadata.title = " "],
     [FullProfile(B, "Neu") EXCEPT !.metadata.accentColor = <<"r", "e", "d">>],
     [FullProfile(B, "Neu") EXCEPT !.metadata.accentColor = <<"#", "C", "4", "1", "E">>],
     [FullProfile(B, "Neu") EXCEPT !.metadata.slug = <<"B">>],
     [FullProfile(B, "Neu") EXCEPT !.metadata.slug = <<"b", "-">>],
     [FullProfile(B, "Neu") EXCEPT !.metadata.slug = <<>>],
     Without(FullProfile(B, "Neu"), "voice")}

Bodies == Profiles \cup BadAmounts \cup OtherBodies

\* The bodies sent to POST /api/config/update.
LegacyConfig ==
    [agentName |-> "Anna", donorName |-> "Max Mustermann", currentAmount |-> 10,
     targetAmount |-> 15, donationHistory |-> "1 Jahr", contactTone |-> "Casual",
     additionalInstructions |-> "", systemPrompt |-> "Du heisst Anna."]

LegacyBodies ==
    {LegacyConfig,
     [LegacyConfig EXCEPT !.targetAmount = 10],
     Without(LegacyConfig, "currentAmount"),
     [LegacyConfig EXCEPT !.systemPrompt = ""]}

\* The store of a deployment without data, and the store of the development server
\* after initializeStorage.
EmptyStore(server) ==
    [server |-> server, password |-> "", secret |-> "", index |-> FALSE,
     simulators |-> <<>>, defaultSlug |-> <<>>, configs |-> <<>>,
     old |-> FALSE, oldConfig |-> <<>>]

initializeStorage ==
    [kvSet(EmptyStore("vite"), Drk, createDefaultSimulatorConfig)
        EXCEPT !.index = TRUE, !.simulators = <<createDefaultSimulatorConfig.metadata>>,
               !.defaultSlug = Drk]

\* A request op was handled with the answer r; defaultSlug is the default before it.
Handled(op, slug, r) ==
    /\ store' = Tick(r.store)
    /\ http' = [op |-> op, status |-> r.status, slug |-> slug,
                defaultSlug |-> store.defaultSlug]
    /\ UNCHANGED <<callVars, proc, editor, reqs, auth>>

\* POST /api/simulators/{slug}/update, on the server that runs.
Update(slug, body) ==
    IF store.server = "vercel" THEN handleUpdate(store, slug, body)
    ELSE devUpdate(store, slug, body)

\* GET /api/simulators/list
listSimulators ==
    /\ store.server # "none"
    /\ Handled("list", <<>>, IF store.server = "vercel" THEN listHandler(store)
                             ELSE Answer(200, store))

\* GET /api/simulators/{slug}/get
getSimulator(slug) ==
    /\ store.server # "none"
    /\ Handled("get", slug, Answer(IF kvHas(store, slug) THEN 200 ELSE 404, store))

\* POST /api/simulators/{slug}/update with any body.
updateSimulator(slug, body) ==
    /\ store.server # "none"
    /\ Handled("update", slug, Update(slug, body))

\* Config.handleSubmit: the checks of the page, then the request; 0 is the status of a
\* submission that the page did not send.
handleSubmit(isNewSimulator, originalSlug, config) ==
    /\ store.server # "none"
    /\ LET slug == IF isNewSimulator THEN config.metadata.slug ELSE originalSlug
       IN Handled(IF isNewSimulator THEN "create" ELSE "save", slug,
                  IF \/ ~isValidSlug(config.metadata.slug)
                     \/ Trim(config.metadata.title) = ""
                     \/ ~isValidHexColor(config.metadata.accentColor)
                  THEN Answer(0, store)
                  ELSE Update(slug, config))

\* "Neuer Simulator", filled in and submitted.
createSimulator(config) ==
    /\ store.server # "none"
    /\ handleSubmit(TRUE, <<>>, config)

\* A simulator of the list, loaded, edited and submitted.
saveSimulator(originalSlug, config) ==
    /\ originalSlug \in DOMAIN store.configs
    /\ handleSubmit(FALSE, originalSlug, config)

\* DELETE /api/simulators/{slug}/delete
deleteSimulator(slug) ==
    /\ store.server # "none"
    /\ Handled("delete", slug, IF store.server = "vercel" THEN handleDelete(store, slug)
                               ELSE devDelete(store, slug))

\* POST /api/config/update
updateConfig(body) ==
    /\ store.server # "none"
    /\ Handled("legacy", <<>>, IF store.server = "vercel" THEN legacyUpdate(store, body)
                               ELSE devLegacyUpdate(store, body))

InitStore ==
    /\ apiKey = "ok"
    /\ Idle
    /\ proc = NoProc
    /\ store \in {EmptyStore("vercel"), initializeStorage}
    /\ http = NoHttp
    /\ editor = NoEditor
    /\ reqs = NoReqs
    /\ auth = NoAuth

NextStore ==
    \/ listSimulators
    \/ \E slug \in Slugs : getSimulator(slug)
    \/ \E slug \in Slugs, body \in Bodies : updateSimulator(slug, body)
    \/ \E config \in Bodies : createSimulator(config)
    \/ \E slug \in Slugs, config \in Profiles \cup BadAmounts : saveSimulator(slug, config)
    \/ \E slug \in Slugs : deleteSimulator(slug)
    \/ \E body \in LegacyBodies : updateConfig(body)

SpecStore == InitStore /\ [][NextStore]_vars

\* The stores with a clock: the development server after initializeStorage and the
\* deployed server after its first list request, both at time 0, a moment later.
Clocked(st) ==
    LET metadata == Spread(st.configs[Drk].metadata, [createdAt |-> 0, updatedAt |-> 0])
    IN Spread([st EXCEPT !.configs = [@ EXCEPT ![Drk] = [@ EXCEPT !.metadata = metadata]],
                         !.simulators = <<metadata>>],
              [now |-> 1])

InitRename ==
    /\ apiKey = "ok"
    /\ Idle
    /\ proc = NoProc
    /\ store \in {Clocked(initializeStorage), Clocked(listHandler(EmptyStore("vercel")).store)}
    /\ http = NoHttp
    /\ editor = NoEditor
    /\ reqs = NoReqs
    /\ auth = NoAuth

NextRename ==
    \/ listSimulators
    \/ \E slug \in Slugs : getSimulator(slug)
    \/ \E slug \in Slugs, body \in Profiles : updateSimulator(slug, body)
    \/ \E slug \in Slugs : deleteSimulator(slug)

SpecRename == InitRename /\ [][NextRename]_vars

\* ------------------------------------------------------------ the server: auth and session
\* A request body: unparsable text (raw "empty" or "garbage"), or the parsed object.
Unparsable(raw) == [json |-> FALSE, raw |-> raw]
Parsed(value) == [json |-> TRUE, value |-> value]

\* type RealtimeVoice: the voice identifiers of the provider.
RealtimeVoice ==
    {"alloy", "ash", "ballad", "coral", "echo", "sage", "shimmer", "verse", "marin", "cedar"}

\* Nothing was sent to the provider, and the provider answered nothing.
NoCall == [sent |-> FALSE]
NoAnswer == [outcome |-> "none", status |-> 0]

\* A verify handler that accepts every password that is submitted.
verifyAcceptsAny(st, body) ==
    IF st.password = "" THEN 200
    ELSE IF body.json /\ OrText(body.value, "password", "") # "" THEN 200
    ELSE 400

\* POST /api/auth/verify of the deployed server. The platform answers 400 when
\* req.body is read and the body is not JSON; an empty body reads as undefined.
verifyHandler(st, body) ==
    IF st.password = "" THEN 200
    ELSE IF ~body.json /\ body.raw = "garbage" THEN 400
    ELSE LET password == IF body.json THEN OrText(body.value, "password", "") ELSE ""
         IN IF password = "" THEN 400
            ELSE IF password = st.password THEN 200
            ELSE 401

\* POST /api/auth/verify of the development server: JSON.parse comes first.
devVerify(st, body) ==
    IF ~body.json THEN 400
    ELSE IF st.password = "" THEN 200
    ELSE LET password == OrText(body.value, "password", "")
         IN IF password = "" THEN 400
            ELSE IF password = st.password THEN 200
            ELSE 401

\* The session handler that does not look at the API key before it calls the provider.
sessionRequestUnchecked(st, body) ==
    IF ~body.json THEN NoCall
    ELSE [sent |-> TRUE, model |-> "gpt-4o-realtime-preview",
          voice |-> OrText(body.value, "voice", "coral"),
          instructions |-> OrText(body.value, "instructions", ""),
          turn_detection |-> [type |-> "server_vad", threshold |-> 6,
                              prefix_padding_ms |-> 400, silence_duration_ms |-> 1200]]

\* POST /api/session: the body of the request to the provider (threshold in tenths),
\* or NoCall when the handler answers before the fetch.
sessionRequest(st, body) ==
    IF ~body.json THEN NoCall
    ELSE IF st.secret = "" THEN NoCall
    ELSE [sent |-> TRUE, model |-> "gpt-4o-realtime-preview",
          voice |-> OrText(body.value, "voice", "coral"),
          instructions |-> OrText(body.value, "instructions", ""),
          turn_detection |-> [type |-> "server_vad", threshold |-> 6,
                              prefix_padding_ms |-> 400, silence_duration_ms |-> 1200]]

\* POST /api/session: the status of the response, given what the provider did with the
\* request: "ok", "rejected" with its status, "unreachable" (fetch throws) or
\* "garbled" (response.json() throws).
sessionStatus(call, provider) ==
    IF ~call.sent THEN 500
    ELSE IF provider.outcome = "rejected" THEN provider.status
    ELSE IF provider.outcome = "ok" THEN 200
    ELSE 500

\* POST /api/session: the properties of the response body; "session" stands for the
\* session object of the provider, passed on as it is.
sessionAnswer(call, provider) ==
    IF ~call.sent THEN {"error"}
    ELSE IF provider.outcome = "rejected" THEN {"error", "details"}
    ELSE IF provider.outcome = "ok" THEN {"session"}
    ELSE {"error"}

\* sendSessionUpdate of the WebSocket transport: the instructions are composed from the
\* fields of promptConfig (the template, cut down to its first sentence).
sendSessionUpdate(promptConfig) ==
    [sent |-> TRUE, type |-> "session.update", voice |-> "alloy",
     instructions |-> "Du bist " \o promptConfig.agentName \o ", und du rufst "
                         \o promptConfig.donorName \o " vom Deutschen Roten Kreuz an.",
     turn_detection |-> [type |-> "server_vad", threshold |-> 5,
                         prefix_padding_ms |-> 300, silence_duration_ms |-> 500]]

\* The bodies sent to POST /api/auth/verify.
VerifyBodies ==
    {Unparsable("empty"), Unparsable("garbage"), Parsed([user |-> "x"]),
     Parsed([password |-> ""]),
     Parsed([password |-> "geheim"]), Parsed([password |-> "falsch"])}

\* The bodies sent to POST /api/session.
SessionBodies ==
    {Unparsable("garbage")}
    \cup {Parsed([instructions |-> i]) : i \in {"", "Du heisst Sarah."}}
    \cup {Parsed([voice |-> v]) : v \in {"", "marin", "xyz"}}
    \cup {Parsed([voice |-> v, instructions |-> i]) :
              v \in {"", "marin", "xyz"}, i \in {"", "Du heisst Sarah."}}
    \cup {Parsed([user |-> "x"])}

\* What the provider does with a session request: it accepts only its own voices.
ProviderAnswers(call) ==
    {[outcome |-> "rejected", status |-> st] : st \in {400, 401, 429}}
    \cup {[outcome |-> o, status |-> 200] :
              o \in IF call.sent /\ call.voice \in RealtimeVoice
                    THEN {"ok", "unreachable", "garbled"} ELSE {"unreachable"}}

\* The answer to a request of the auth and session endpoints.
Answered(op, body, status, answer, call, provider) ==
    /\ http' = [op |-> op, status |-> status, answer |-> answer, request |-> body,
                call |-> call, provider |-> provider]
    /\ UNCHANGED <<callVars, proc, store, editor, reqs, auth>>

\* POST /api/auth/verify
verifyPassword(body) ==
    /\ store.server # "none"
    /\ Answered("verify", body,
                IF store.server = "vercel" THEN verifyHandler(store, body)
                ELSE devVerify(store, body),
                {}, NoCall, NoAnswer)

\* POST /api/session (development server)
createSession(body, provider) ==
    /\ store.server = "vite"
    /\ LET call == sessionRequest(store, body)
       IN /\ provider \in IF call.sent THEN ProviderAnswers(call) ELSE {NoAnswer}
          /\ Answered("session", body, sessionStatus(call, provider),
                      sessionAnswer(call, provider), call, provider)

\* ws.onopen of the WebSocket transport, for a call on the profile promptConfig.
sessionUpdate(promptConfig) ==
    /\ store.server # "none"
    /\ Answered("session.update", Parsed(promptConfig), 0, {},
                sendSessionUpdate(promptConfig), NoAnswer)

InitApi ==
    /\ apiKey = "ok"
    /\ Idle
    /\ proc = NoProc
    /\ store \in {[EmptyStore(server) EXCEPT !.password = pw, !.secret = key] :
                     server \in {"vercel", "vite"}, pw \in {"", "geheim"},
                     key \in {"", "sk-proj"}}
    /\ http = NoHttp
    /\ editor = NoEditor
    /\ reqs = NoReqs
    /\ auth = NoAuth

AllProviderAnswers ==
    {NoAnswer} \cup {[outcome |-> "rejected", status |-> st] : st \in {400, 401, 429}}
    \cup {[outcome |-> o, status |-> 200] : o \in {"ok", "unreachable", "garbled"}}

NextApi ==
    \/ \E body \in VerifyBodies : verifyPassword(body)
    \/ \E body \in SessionBodies, provider \in AllProviderAnswers : createSession(body, provider)
    \/ \E promptConfig \in {createDefaultSimulatorConfig, LegacyConfig} : sessionUpdate(promptConfig)

SpecApi == InitApi /\ [][NextApi]_vars

\* ------------------------------------------------------------ the server: requests in steps
\* The deployed handlers await every call of the key-value store, so the calls of
\* requests that overlap interleave. A request in flight: its position pc, the index
\* it read (snap) and the old configuration it read (oldConfig).
MaxRequests == 2

NoSnap == [index |-> FALSE, simulators |-> <<>>, defaultSlug |-> <<>>]

NewRequest(op, slug) ==
    [op |-> op, slug |-> slug, pc |-> "getIndex", snap |-> NoSnap, oldConfig |-> <<>>,
     migrating |-> FALSE]

\* The store as the request saw it when it read the index.
AsRead(st, r) ==
    [st EXCEPT !.index = r.snap.index, !.simulators = r.snap.simulators,
               !.defaultSlug = r.snap.defaultSlug]

RemoveAt(seq, i) == [j \in 1..(Len(seq) - 1) |-> IF j < i THEN seq[j] ELSE seq[j + 1]]

\* The request arrives.
Begins(op, slug) ==
    /\ store.server = "vercel"
    /\ Len(reqs) < MaxRequests
    /\ reqs' = Append(reqs, NewRequest(op, slug))
    /\ UNCHANGED <<callVars, proc, store, http, editor, auth>>

\* Request i made a call of the store and goes on at pc.
Goes(i, st, r) ==
    /\ store' = st
    /\ reqs' = [reqs EXCEPT ![i] = r]
    /\ UNCHANGED <<callVars, proc, http, editor, auth>>

\* Request i is answered.
Ends(i, st, status) ==
    /\ store' = st
    /\ reqs' = RemoveAt(reqs, i)
    /\ http' = [op |-> reqs[i].op, status |-> status, slug |-> reqs[i].slug,
                defaultSlug |-> store.defaultSlug]
    /\ UNCHANGED <<callVars, proc, editor, auth>>

At(i, op, pos) == i \in 1..Len(reqs) /\ reqs[i].op = op /\ reqs[i].pc = pos

listBegins ==
    /\ store.server = "vercel"
    /\ Begins("list", <<>>)

deleteBegins(slug) ==
    /\ store.server = "vercel"
    /\ Begins("delete", slug)

\* list handler: kv.get(KV_INDEX_KEY)
listGetIndex(i) ==
    /\ At(i, "list", "getIndex")
    /\ IF store.index THEN Ends(i, store, 200)
       ELSE Goes(i, store, [reqs[i] EXCEPT !.pc = "getOld"])

\* migrateFromOldConfig: kv.get(KV_OLD_CONFIG_KEY)
listGetOld(i) ==
    /\ At(i, "list", "getOld")
    /\ IF store.old
       THEN Goes(i, store, [reqs[i] EXCEPT !.pc = "setConfig", !.oldConfig = store.oldConfig,
                                           !.migrating = TRUE])
       ELSE Goes(i, store, [reqs[i] EXCEPT !.pc = "setConfig"])

\* kv.set of the drk config: the migrated one, or the default one.
listSetConfig(i) ==
    /\ At(i, "list", "setConfig")
    /\ LET config == IF reqs[i].migrating
                     THEN migrateFromOldConfig(
                              [store EXCEPT !.oldConfig = reqs[i].oldConfig]).configs[Drk]
                     ELSE createDefaultSimulatorConfig
       IN Goes(i, kvSet(store, Drk, config), [reqs[i] EXCEPT !.pc = "setIndex"])

\* kv.set(KV_INDEX_KEY, index)
listSetIndex(i) ==
    /\ At(i, "list", "setIndex")
    /\ LET st == [store EXCEPT !.index = TRUE, !.simulators = <<defaultMetadata>>,
                               !.defaultSlug = Drk]
       IN IF reqs[i].migrating THEN Goes(i, st, [reqs[i] EXCEPT !.pc = "delOld"])
          ELSE Ends(i, st, 200)

\* kv.del(KV_OLD_CONFIG_KEY)
listDelOld(i) ==
    /\ At(i, "list", "delOld")
    /\ Ends(i, [store EXCEPT !.old = FALSE, !.oldConfig = <<>>], 200)

\* handleDelete: kv.get(KV_INDEX_KEY) and the checks on the index it returned.
deleteGetIndex(i) ==
    /\ At(i, "delete", "getIndex")
    /\ LET r == [reqs[i] EXCEPT !.snap = [index |-> store.index,
                                          simulators |-> store.simulators,
                                          defaultSlug |-> store.defaultSlug]]
           answer == handleDelete(AsRead(store, r), r.slug)
       IN IF answer.status # 200 THEN Ends(i, store, answer.status)
          ELSE Goes(i, store, [r EXCEPT !.pc = "delConfig"])

\* kv.del(getKvKey(slug))
deleteDelConfig(i) ==
    /\ At(i, "delete", "delConfig")
    /\ Goes(i, kvDel(store, reqs[i].slug), [reqs[i] EXCEPT !.pc = "setIndex"])

\* kv.set(KV_INDEX_KEY, updatedIndex), computed from the index the request read.
deleteSetIndex(i) ==
    /\ At(i, "delete", "setIndex")
    /\ LET updated == handleDelete(AsRead(store, reqs[i]), reqs[i].slug).store
       IN Ends(i, [store EXCEPT !.index = TRUE, !.simulators = updated.simulators,
                                !.defaultSlug = updated.defaultSlug], 200)

\* A call of the store throws: the handler's catch answers 500.
kvThrows(i) ==
    /\ i \in 1..Len(reqs)
    /\ Ends(i, store, 500)

\* The old configurations a deployment may hold.
OldConfigs == {LegacyConfig, Without(LegacyConfig, "additionalInstructions"),
               [agentName |-> "Anna"]}

InitMigrate ==
    /\ apiKey = "ok"
    /\ Idle
    /\ proc = NoProc
    /\ store \in {EmptyStore("vercel")}
                 \cup {[EmptyStore("vercel") EXCEPT !.old = TRUE, !.oldConfig = c] :
                          c \in OldConfigs}
    /\ http = NoHttp
    /\ editor = NoEditor
    /\ reqs = NoReqs
    /\ auth = NoAuth

NextMigrate ==
    \/ listBegins
    \/ \E i \in 1..MaxRequests :
          \/ listGetIndex(i)
          \/ listGetOld(i)
          \/ listSetConfig(i)
          \/ listSetIndex(i)
          \/ listDelOld(i)
          \/ kvThrows(i)

SpecMigrate == InitMigrate /\ [][NextMigrate]_vars

\* The deployed store with the profiles drk and a-1, and with b as well.
TwoProfiles == handleUpdate(listHandler(EmptyStore("vercel")).store, A1, FullProfile(A1, "Neu")).store
ThreeProfiles == handleUpdate(TwoProfiles, B, FullProfile(B, "Neu")).store

InitDeletes ==
    /\ apiKey = "ok"
    /\ Idle
    /\ proc = NoProc
    /\ store \in {TwoProfiles, ThreeProfiles}
    /\ http = NoHttp
    /\ editor = NoEditor
    /\ reqs = NoReqs
    /\ auth = NoAuth

NextDeletes ==
    \/ \E slug \in Slugs : deleteBegins(slug)
    \/ \E i \in 1..MaxRequests :
          \/ deleteGetIndex(i)
          \/ deleteDelConfig(i)
          \/ deleteSetIndex(i)

SpecDeletes == InitDeletes /\ [][NextDeletes]_vars

\* ------------------------------------------------------------ the configuration page
\* The page as it mounts: config is null (hasConfig), the flags are false. seen is
\* the promptManuallyEdited that the handlers of the last render closed over; hand and
\* last are observers: the operator typed the prompt since the last load or
\* regenerate, and the last handler that ran.
MountedEditor ==
    [open |-> TRUE, hasConfig |-> FALSE, config |-> [metadata |-> defaultMetadata],
     originalSlug |-> <<>>, promptManuallyEdited |-> FALSE, isNewSimulator |-> FALSE,
     seen |-> FALSE, hand |-> FALSE, last |-> "mount"]

DEFAULT_SIMULATOR_CONFIG == Spread(DEFAULT_PROMPT_CONFIG, [metadata |-> defaultMetadata])

\* A handler of a discrete event ran: React renders before the next event, so the
\* handlers close over the new flag.
Rendered(e, op) == [e EXCEPT !.seen = e.promptManuallyEdited, !.last = op]

\* setConfig((prev) => ...), which leaves a null config alone.
setConfig(e, next) == IF e.hasConfig THEN [e EXCEPT !.config = next] ELSE e

Edited(e) ==
    /\ editor' = e
    /\ UNCHANGED <<callVars, proc, store, http, reqs, auth>>

\* The operator opens the configuration page.
openConfig ==
    /\ store.server # "none"
    /\ ~editor.open
    /\ Edited(MountedEditor)

\* fetchSimulatorConfig: the response of GET /api/simulators/{slug}/get arrives. The
\* state is set after an await, so the render follows later.
fetchSimulatorConfig(slug) ==
    /\ editor.open
    /\ Edited(IF kvHas(store, slug)
              THEN [editor EXCEPT !.hasConfig = TRUE, !.config = store.configs[slug],
                                  !.originalSlug = slug, !.promptManuallyEdited = FALSE,
                                  !.hand = FALSE, !.last = "fetchSimulatorConfig"]
              ELSE [editor EXCEPT !.last = "fetchFailed"])

\* React renders the state set by a response.
render ==
    /\ editor.open
    /\ editor.seen # editor.promptManuallyEdited
    /\ Edited([editor EXCEPT !.seen = editor.promptManuallyEdited, !.last = "render"])

handleNewSimulator ==
    /\ editor.open
    /\ Edited(Rendered([editor EXCEPT
                 !.hasConfig = TRUE,
                 !.config = Spread(DEFAULT_SIMULATOR_CONFIG,
                               [metadata |-> [slug |-> <<>>, title |-> "", subtitle |-> "",
                                              accentColor |-> DEFAULT_ACCENT_COLOR],
                                systemPrompt |-> generateSystemPrompt(DEFAULT_SIMULATOR_CONFIG)]),
                 !.originalSlug = <<>>, !.isNewSimulator = TRUE,
                 !.promptManuallyEdited = FALSE, !.hand = FALSE], "handleNewSimulator"))

\* updateField that regenerates the prompt whether or not it was typed by hand.
updateFieldAlways(key, value) ==
    /\ editor.open
    /\ LET updated == Spread(editor.config, [f \in {key} |-> value])
       IN Edited(Rendered(setConfig(editor,
                     Spread(updated, [systemPrompt |-> generateSystemPrompt(updated)])),
                 "updateField"))

\* updateField(key, value), for the keys of the inputs that call it.
updateField(key, value) ==
    /\ editor.open
    /\ LET updated == Spread(editor.config, [f \in {key} |-> value])
       IN Edited(Rendered(setConfig(editor,
                     IF ~editor.seen
                     THEN Spread(updated, [systemPrompt |-> generateSystemPrompt(updated)])
                     ELSE updated), "updateField"))

updateMetadata(key, value) ==
    /\ editor.open
    /\ Edited(Rendered(setConfig(editor,
                  Spread(editor.config,
                         [metadata |-> Spread(editor.config.metadata, [f \in {key} |-> value])])),
              "updateMetadata"))

handlePromptChange(value) ==
    /\ editor.open
    /\ Edited(Rendered([setConfig(editor, Spread(editor.config, [systemPrompt |-> value]))
                           EXCEPT !.promptManuallyEdited = TRUE, !.hand = editor.hasConfig],
                       "handlePromptChange"))

regeneratePrompt ==
    /\ editor.open
    /\ Edited(Rendered([setConfig(editor,
                           Spread(editor.config,
                                  [systemPrompt |-> generateSystemPrompt(editor.config)]))
                           EXCEPT !.promptManuallyEdited = FALSE, !.hand = FALSE],
                       "regeneratePrompt"))

\* updatePersona(index, field, value): the array is filled with empty personas up to
\* index.
updatePersona(index, field, value) ==
    /\ editor.open
    /\ LET old == IF "personas" \in DOMAIN editor.config THEN editor.config.personas ELSE <<>>
           filled == [i \in 1..(IF Len(old) > index THEN Len(old) ELSE index + 1) |->
                         IF i <= Len(old) THEN old[i] ELSE [name |-> "", prompt |-> ""]]
           personas == [filled EXCEPT ![index + 1] = Spread(@, [f \in {field} |-> value])]
       IN Edited(Rendered(setConfig(editor, Spread(editor.config, [personas |-> personas])),
                          "updatePersona"))

MaxPersonas == 1

InitEditor ==
    /\ apiKey = "ok"
    /\ Idle
    /\ proc = NoProc
    /\ store = [initializeStorage EXCEPT
                   !.configs = [@ EXCEPT ![Drk] =
                       [@ EXCEPT !.systemPrompt = "Du heisst Sarah und bist freundlich."]]]
    /\ http = NoHttp
    /\ editor = NoEditor
    /\ reqs = NoReqs
    /\ auth = NoAuth

NextEditor ==
    \/ openConfig
    \/ \E slug \in {Drk, B} : fetchSimulatorConfig(slug)
    \/ render
    \/ handleNewSimulator
    \/ \E value \in {"Sarah", "Anna"} : updateField("agentName", value)
    \/ \E value \in ContactTones : updateField("contactTone", value)
    \/ \E value \in {"Neu", ""} : updateMetadata("title", value)
    \/ \E value \in {"Du heisst Eva.", ""} : handlePromptChange(value)
    \/ regeneratePrompt
    \/ \E index \in 0..(MaxPersonas - 1), value \in {"Eva", ""} : updatePersona(index, "name", value)

SpecEditor == InitEditor /\ [][NextEditor]_vars

\* ------------------------------------------------------------ the slug input
\* Texts are sequences of characters. String.prototype.toLowerCase on the characters
\* explored.
toLowerCase(char) ==
    IF char = "A" THEN "a" ELSE IF char = "U" THEN "u" ELSE IF char = "Ü" THEN "ü" ELSE char

\* .replace(/[äöüß]/g, ...)
RECURSIVE replaceUmlauts(_)
replaceUmlauts(text) ==
    IF text = <<>> THEN <<>>
    ELSE (IF Head(text) = "ä" THEN <<"a", "e">>
          ELSE IF Head(text) = "ö" THEN <<"o", "e">>
          ELSE IF Head(text) = "ü" THEN <<"u", "e">>
          ELSE IF Head(text) = "ß" THEN <<"s", "s">>
          ELSE <<Head(text)>>) \o replaceUmlauts(Tail(text))

\* .replace(/[^a-z0-9]+/g, '-')
RECURSIVE replaceOthers(_)
replaceOthers(text) ==
    IF text = <<>> THEN <<>>
    ELSE IF Head(text) \in Lower \cup Digit THEN <<Head(text)>> \o replaceOthers(Tail(text))
    ELSE IF Len(text) >= 2 /\ text[2] \notin Lower \cup Digit THEN replaceOthers(Tail(text))
    ELSE <<"-">> \o replaceOthers(Tail(text))

\* .replace(/^-|-$/g, '')
trimHyphens(text) ==
    LET head == IF text # <<>> /\ text[1] = "-" THEN Tail(text) ELSE text
    IN IF head # <<>> /\ head[Len(head)] = "-" THEN SubSeq(head, 1, Len(head) - 1) ELSE head

SLUG_LENGTH == 50

\* .slice(0, 50)
slice(text, end) == SubSeq(text, 1, IF Len(text) < end THEN Len(text) ELSE end)

toSlug(input) ==
    slice(trimHyphens(replaceOthers(replaceUmlauts([i \in 1..Len(input) |->
                                                        toLowerCase(input[i])]))),
          SLUG_LENGTH)

\* The texts typed or pasted into the slug input: a run of one character, then a few
\* characters more.
MaxRun == 50
MaxTail == 2

SlugChars == {"a", "A", "1", "-", " ", "ü"}

Tails == UNION {[1..n -> SlugChars] : n \in 0..MaxTail}

SlugInputs ==
    {[i \in 1..n |-> c] \o tail : n \in 0..MaxRun, c \in {"a", "ü"}, tail \in Tails}

\* onChange of the slug input; typed is e.target.value.
slugChange ==
    /\ "typed" \in DOMAIN editor
    /\ updateMetadata("slug", toSlug(editor.typed))

InitSlug ==
    /\ apiKey = "ok"
    /\ Idle
    /\ proc = NoProc
    /\ store = initializeStorage
    /\ http = NoHttp
    /\ editor \in {Spread([MountedEditor EXCEPT !.hasConfig = TRUE,
                                                !.config = createDefaultSimulatorConfig,
                                                !.originalSlug = Drk],
                          [typed |-> input]) : input \in SlugInputs}
    /\ reqs = NoReqs
    /\ auth = NoAuth

NextSlug == slugChange

SpecSlug == InitSlug /\ [][NextSlug]_vars

\* ------------------------------------------------------------ the AuthProvider
\* The browser before the application is loaded: storage is the value of
\* localStorage under AUTH_STORAGE_KEY ("" when there is none).
Unmounted(storage) == [mounted |-> FALSE, storage |-> storage]

NoRequest == [kind |-> "none", password |-> ""]

\* The status of /api/auth/verify for the body JSON.stringify({ password }).
verifyStatus(password) ==
    IF store.server = "vercel" THEN verifyHandler(store, Parsed([password |-> password]))
    ELSE devVerify(store, Parsed([password |-> password]))

Authed(a) ==
    /\ auth' = a
    /\ UNCHANGED <<callVars, proc, store, http, editor, reqs>>

\* AuthProvider mounts: the effect reads the storage and, when it holds a password,
\* calls verifyStoredAuth, which awaits the fetch.
mountAuth ==
    /\ store.server # "none"
    /\ ~auth.mounted
    /\ Authed([mounted |-> TRUE, storage |-> auth.storage, isAuthenticated |-> FALSE,
               isLoading |-> auth.storage = "",
               request |-> IF auth.storage # "" THEN [kind |-> "stored", password |-> auth.storage]
                           ELSE NoRequest,
               last |-> "mount"])

\* verifyStoredAuth, the response arrives.
storedAuthAnswered ==
    /\ auth.mounted /\ auth.request.kind = "stored"
    /\ Authed(IF verifyStatus(auth.request.password) = 200
              THEN [auth EXCEPT !.isAuthenticated = TRUE, !.isLoading = FALSE,
                                !.request = NoRequest, !.last = "verified"]
              ELSE [auth EXCEPT !.storage = "", !.isLoading = FALSE,
                                !.request = NoRequest, !.last = "rejected"])

\* verifyStoredAuth, the fetch rejects: the catch block.
storedAuthUnreachable ==
    /\ auth.mounted /\ auth.request.kind = "stored"
    /\ Authed([auth EXCEPT !.isAuthenticated = TRUE, !.isLoading = FALSE,
                           !.request = NoRequest, !.last = "unreachable"])

\* login(password), called by the login form, which is rendered when isLoading and
\* isAuthenticated are false and which disables its button while a login is awaited.
login(password) ==
    /\ auth.mounted /\ ~auth.isLoading /\ ~auth.isAuthenticated
    /\ auth.request.kind = "none"
    /\ Authed([auth EXCEPT !.request = [kind |-> "login", password |-> password],
                           !.last = "login"])

\* login, the response arrives.
loginAnswered ==
    /\ auth.mounted /\ auth.request.kind = "login"
    /\ Authed(IF verifyStatus(auth.request.password) = 200
              THEN [auth EXCEPT !.storage = auth.request.password, !.isAuthenticated = TRUE,
                                !.request = NoRequest, !.last = "verified"]
              ELSE [auth EXCEPT !.request = NoRequest, !.last = "loginRejected"])

\* login, the fetch rejects.
loginUnreachable ==
    /\ auth.mounted /\ auth.request.kind = "login"
    /\ Authed([auth EXCEPT !.request = NoRequest, !.last = "loginUnreachable"])

logout ==
    /\ auth.mounted /\ auth.isAuthenticated
    /\ Authed([auth EXCEPT !.storage = "", !.isAuthenticated = FALSE, !.last = "logout"])

\* The page is loaded again.
reload ==
    /\ auth.mounted
    /\ Authed(Unmounted(auth.storage))

\* The passwords typed into the login form or left in the storage.
Passwords == {"geheim", "falsch", "neu"}

InitAuth ==
    /\ apiKey = "ok"
    /\ Idle
    /\ proc = NoProc
    /\ store \in {[EmptyStore(server) EXCEPT !.password = pw] :
                     server \in {"vercel", "vite"}, pw \in {"", "geheim", "neu"}}
    /\ http = NoHttp
    /\ editor = NoEditor
    /\ reqs = NoReqs
    /\ auth \in {Unmounted(storage) : storage \in {""} \cup Passwords}

NextAuth ==
    \/ mountAuth
    \/ storedAuthAnswered
    \/ storedAuthUnreachable
    \/ \E password \in Passwords : login(password)
    \/ loginAnswered
    \/ loginUnreachable
    \/ logout
    \/ reload

SpecAuth == InitAuth /\ [][NextAuth]_vars

\* ------------------------------------------------------------ the claims
\* An owner callback of connection a is invoked.
Callback(a) == wsOpen(a) \/ wsAudioDelta(a) \/ wsAudioDone(a) \/ wsErrorMessage(a) \/ wsError(a)

\* onError is invoked by connection a.
ErrorCallback(a) == wsErrorMessage(a) \/ wsError(a)

\* Every microphone stream and every socket of the component is released.
AllReleased == \A a \in Attempts : ~ap[a].mediaStream /\ conn[a].sock \notin SockLive

\* C1: while the component is mounted, each of the two handles (connectionRef,
\* audioProcessorRef) is non-null exactly when callState is CONNECTING, USER_SPEAKING,
\* AGENT_SPEAKING or CONVERSATION.
C1_HandlesIffActive ==
    mounted => /\ (connectionRef # 0) <=> (callState \in ActivePhases)
               /\ (audioProcessorRef # 0) <=> (callState \in ActivePhases)

\* C2: the happy path (startCall, answerCall, the connect succeeding, onAgentSpeaking,
\* onAgentFinished, endCall, the end timer) takes callState through RINGING, CONNECTING,
\* USER_SPEAKING, AGENT_SPEAKING, CONVERSATION, ENDED, IDLE and ends with null handles,
\* nothing held and an empty error.
C2_HappyPath ==
    trail = HappyPath =>
        /\ phases = <<RINGING, CONNECTING, USER_SPEAKING, AGENT_SPEAKING, CONVERSATION, ENDED, IDLE>>
        /\ callState = IDLE
        /\ connectionRef = 0 /\ audioProcessorRef = 0
        /\ AllReleased
        /\ error = ""

C2_Witness == trail = HappyPath

\* The edges of the state machine as declared.
DeclaredEdges ==
    {<<IDLE, RINGING>>, <<RINGING, CONNECTING>>, <<RINGING, IDLE>>, <<CONNECTING, USER_SPEAKING>>,
     <<USER_SPEAKING, AGENT_SPEAKING>>, <<CONVERSATION, AGENT_SPEAKING>>,
     <<AGENT_SPEAKING, CONVERSATION>>, <<ENDED, IDLE>>}
    \cup {<<p, ENDED>> : p \in ActivePhases}

\* C3: callState changes only along the declared edges.
C3_DeclaredEdges ==
    [][callState' # callState => <<callState, callState'>> \in DeclaredEdges]_vars

\* A step of attempt a's connect fails while its call is in CONNECTING.
ConnectFailure(a) ==
    /\ mounted /\ callState = CONNECTING /\ attempt = a /\ ~aborted[a]
    /\ \/ configFailed(a)
       \/ micDenied(a)
       \/ apiKey # "ok" /\ micGranted(a)
       \/ conn[a].sock = "connecting" /\ wsError(a)

ThrownInAnswerCall(a) == configFailed(a) \/ micDenied(a) \/ (apiKey # "ok" /\ micGranted(a))

C5_Released == (callState \in {IDLE, ENDED} \/ ~mounted) => AllReleased

\* The connect operation of attempt a completes or fails.
Completion(a) ==
    \/ configLoaded(a) \/ configFailed(a) \/ micGranted(a) \/ micDenied(a)
    \/ conn[a].sock \in {"connecting", "closingFail"} /\ (wsOpen(a) \/ wsError(a))

\* C6: once a call was ended while its connect was outstanding, the completion or
\* failure of the connect changes neither callState nor error nor connectionRef.
C6_LateCompletionInert ==
    [][\A a \in Attempts : aborted[a] /\ Completion(a) =>
            UNCHANGED <<callState, error, connectionRef>>]_vars

\* A timer or a callback created by an attempt earlier than the current one fires.
StaleStep ==
    \/ \E e \in Epochs : e < attempt /\ endTimer(e)
    \/ speakingTimeoutRef.ep < attempt /\ debounceTimer
    \/ \E a \in Attempts : a < attempt /\ Callback(a)

\* C7: no timer and no callback of an earlier attempt changes callState or error once
\* a later attempt has started.
C7_StaleInert == [][StaleStep => UNCHANGED <<callState, error>>]_vars

\* C8: after disconnect() no owner callback of that connection is invoked.
C8_SilentAfterDisconnect == \A a \in Attempts : ~conn[a].late

\* C9: when the connection of the active call reports an error, callState becomes
\* ENDED, error is the message reported, and disconnect() has run exactly once on
\* that connection; no connection is ever disconnected twice.
C9_ErrorEndsCall ==
    [][\A a \in Attempts :
          /\ conn'[a].disconnects <= 1
          /\ (mounted /\ callState \in ActivePhases /\ connectionRef = a /\ ErrorCallback(a)) =>
                /\ callState' = ENDED
                /\ error' \in {MsgWsError, MsgServerError}
                /\ conn'[a].disconnects = 1]_vars

C9_Witness ==
    /\ mounted /\ callState = ENDED /\ error \in {MsgWsError, MsgServerError}
    /\ \E a \in Attempts : conn[a].errored /\ conn[a].disconnects = 1 /\ conn[a].sock = "closing"

TornDown ==
    \A a \in Attempts :
        /\ ~conn[a].ws /\ conn[a].sock \notin SockLive
        /\ ~ap[a].mediaStream /\ ~ap[a].capture /\ ~ap[a].audioContext

\* C11: whenever callState leaves ENDED for IDLE, the teardown has completed:
\* disconnect() has run on every connection made and every processor is released.
C11_TeardownBeforeIdle ==
    [][(callState = ENDED /\ callState' = IDLE) => TornDown]_vars

\* ENDED is left for IDLE only with the error cleared.
EndedToIdleClearsError == [][(callState = ENDED /\ callState' = IDLE) => error' = ""]_vars

\* While the component stays mounted, ENDED is followed by IDLE.
EndedLeadsToIdle == (mounted /\ callState = ENDED) ~> (~mounted \/ callState = IDLE)

\* C12: every time callState becomes ENDED it becomes IDLE once the 2 s timer has
\* fired, and at the step from ENDED to IDLE the error is the empty string.
C12_EndedReturnsToIdle == EndedToIdleClearsError /\ EndedLeadsToIdle

\* The connections whose transport was created and not yet disconnected.
OpenConnections == {a \in Attempts : conn[a].ws}

\* C13: at most one transport connection created by the component is open (created
\* and not yet disconnected) at any time.
C13_OneConnection == Cardinality(OpenConnections) <= 1

\* A connection attempt of attempt a: its connection object is constructed, or its
\* socket starts a handshake.
ConnectAttempt(a) ==
    \/ conn'[a].made /\ ~conn[a].made
    \/ conn'[a].sock = "connecting" /\ conn[a].sock # "connecting"

C15_RingingAcquiresNothing ==
    [][/\ (startCall \/ declineCall) =>
             /\ connectionRef' = 0 /\ audioProcessorRef' = 0
             /\ UNCHANGED <<conn, ap, speakingTimeoutRef, debouncePending, endTimers>>
       /\ (callState = RINGING /\ callState' # RINGING) =>
             \/ answerCall /\ callState' = CONNECTING
             \/ declineCall /\ callState' = IDLE]_vars

\* The only debounce timer pending is the one the most recent onAgentSpeaking set.
DebounceRestarted ==
    /\ debouncePending <= 1
    /\ debouncePending = 1 => speakingTimeoutRef.set /\ speakingTimeoutRef.live

\* C16: in AGENT_SPEAKING, onAgentFinished and the expiry of the debounce timer each
\* move callState to CONVERSATION; every onAgentSpeaking replaces the pending debounce
\* timer by a new one, so that the only timer pending is the one of the last audio
\* delta; and AGENT_SPEAKING is always left.
C16_AgentSpeakingEnds ==
    /\ []DebounceRestarted
    /\ [][(mounted /\ callState = AGENT_SPEAKING) =>
             /\ (debounceTimer \/ \E a \in Attempts : wsAudioDone(a)) =>
                    callState' = CONVERSATION /\ ~isAgentSpeaking'
             /\ (\E a \in Attempts : wsAudioDelta(a)) =>
                    /\ callState' = AGENT_SPEAKING
                    /\ debouncePending' = 1 /\ speakingTimeoutRef'.live]_vars
    /\ (mounted /\ callState = AGENT_SPEAKING) ~> (~mounted \/ callState # AGENT_SPEAKING)

C16_Witness ==
    /\ mounted /\ callState = CONVERSATION /\ ~isAgentSpeaking
    /\ speakingTimeoutRef.set /\ ~speakingTimeoutRef.live /\ debouncePending = 0
    /\ connectionRef # 0 /\ conn[connectionRef].sock = "open"

\* The socket of connection a, not closed by the client, ends: the handshake fails or
\* the connection is closed in mid-call.
ClosedByPeer(a) == conn[a].sock \in SockLive /\ conn'[a].sock = "closed"

\* C17: when the socket of the active call ends without the client having closed it,
\* with or without an error event, onError is delivered and callState becomes ENDED.
C17_ClosureSurfaced ==
    [][\A a \in Attempts :
          (mounted /\ callState \in ActivePhases /\ connectionRef = a /\ ClosedByPeer(a)) =>
              conn'[a].errored /\ callState' = ENDED]_vars

C19_SessionUpdateFirst ==
    \A a \in Attempts :
        /\ conn[a].first \in {"none", "session.update"}
        /\ conn[a].audio => conn[a].first = "session.update"

C19_Witness ==
    \E a \in Attempts :
        conn[a].first = "session.update" /\ conn[a].audio

NothingHeld ==
    /\ ~proc.mediaStream /\ ~proc.sourceNode /\ ~proc.scriptProcessor /\ ~proc.audioContext
    /\ proc.openTracks = 0 /\ proc.openContexts = 0 /\ proc.liveGraphs = 0

\* cleanup() or stopCapture() is called again, right after a call of the same method.
RepeatedRelease ==
    \/ callCleanup /\ proc.last = "cleanup"
    \/ callStopCapture /\ proc.last = "stopCapture"

\* C21: after cleanup() or stopCapture() was called once or more, in any state of the
\* object, no track, source node, processor node or audio context is held, and the
\* second and later calls neither throw nor change the state.
C21_ReleaseIdempotent ==
    /\ [](proc.made /\ proc.last \in {"cleanup", "stopCapture"} => NothingHeld /\ ~proc.threw)
    /\ [][RepeatedRelease =>
            /\ ~proc'.threw
            /\ [proc' EXCEPT !.releases = 0] = [proc EXCEPT !.releases = 0]]_vars

\* The amounts of the body are not a positive number below a greater number.
InvalidAmounts(body) ==
    \/ "currentAmount" \notin DOMAIN body \/ body.currentAmount <= 0
    \/ "targetAmount" \notin DOMAIN body \/ body.targetAmount <= body.currentAmount

\* The body names a slug that another stored profile has.
SlugTaken(slug, body) ==
    /\ kvHas(store, body.metadata.slug)
    /\ ~kvHas(store, slug) \/ body.metadata.slug # slug

\* C22: the upsert rejects every body whose currentAmount is not a positive number or
\* whose targetAmount is not greater than currentAmount, accepts 20/35 when the other
\* fields are valid, and a rejected upsert leaves the configs and the index as they were.
C22_AmountsValidated ==
    [][\A slug \in Slugs, body \in Bodies :
          updateSimulator(slug, body) =>
             /\ InvalidAmounts(body) => http'.status = 400
             /\ http'.status # 200 => store' = store
             /\ (body \in Profiles /\ ~SlugTaken(slug, body)) => http'.status = 200]_vars

\* C23: creating a new profile under the slug of an existing profile is rejected and
\* leaves the stored profiles and the index as they were; saving an existing profile
\* under its own slug succeeds.
C23_SlugCollision ==
    [][/\ \A config \in Bodies :
            (createSimulator(config) /\ kvHas(store, config.metadata.slug)) =>
                (http'.status # 200 /\ store' = store)
       /\ \A slug \in Slugs, config \in Profiles :
            (saveSimulator(slug, config) /\ config.metadata.slug = slug) =>
                http'.status = 200]_vars

\* The index holds a profile and defaultSlug names a profile of the index.
IndexSound == Len(store.simulators) >= 1 /\ store.defaultSlug \in IndexSlugs(store)

\* C24: after any sequence of upsert and delete requests the index holds at least one
\* profile and defaultSlug names a profile of the index; delete refuses to remove the
\* last profile, and deleting the default makes a remaining profile the default.
C24_IndexSound ==
    /\ [](store.server # "none" /\ store.index => IndexSound)
    /\ [][\A slug \in Slugs :
            deleteSimulator(slug) =>
               /\ Len(store.simulators) <= 1 => (http'.status # 200 /\ store' = store)
               /\ (http'.status = 200 /\ store.defaultSlug = slug) =>
                     (store'.defaultSlug # slug /\ store'.defaultSlug \in IndexSlugs(store))]_vars

\* The default profile was deleted and another profile is the default.
C24_Witness ==
    /\ http.op = "delete" /\ http.status = 200 /\ http.defaultSlug = http.slug
    /\ store.defaultSlug # http.slug
    /\ store.defaultSlug \in IndexSlugs(store)

\* The invariant of a profile document.
ProfileValid(c) ==
    /\ c.currentAmount > 0 /\ c.targetAmount > c.currentAmount
    /\ isValidSlug(c.metadata.slug)
    /\ isValidHexColor(c.metadata.accentColor)
    /\ c.systemPrompt # ""

\* C25: every profile held in the store, whether seeded, migrated from the old config,
\* upserted, renamed or written by the legacy update endpoint, has targetAmount >
\* currentAmount > 0, a valid slug, a valid hex accentColor and a non-empty systemPrompt.
C25_StoredProfilesValid ==
    store.server # "none" => \A slug \in DOMAIN store.configs : ProfileValid(store.configs[slug])

\* The fields of a profile document that the configuration page submits.
SubmittedFields ==
    {"agentName", "donorName", "currentAmount", "targetAmount", "donationHistory",
     "contactTone", "additionalInstructions", "voice", "speechSpeed", "personas",
     "systemPrompt"}

\* The document doc, as handleGet returns it, has every submitted value of body.
RoundTrip(body, doc) ==
    /\ \A f \in SubmittedFields : f \in DOMAIN doc /\ doc[f] = body[f]
    /\ \A f \in {"slug", "title", "subtitle", "accentColor"} :
          doc.metadata[f] = body.metadata[f]

\* C26: after a successful upsert of a full profile document, GET by its slug returns
\* a document in which every submitted field (agent and donor fields, voice,
\* speechSpeed, personas, systemPrompt, slug, title, subtitle, accentColor) has the
\* submitted value.
C26_SaveLoadRoundTrip ==
    [][\A slug \in Slugs, body \in Profiles :
          (updateSimulator(slug, body) /\ http'.status = 200) =>
             /\ kvHas(store', body.metadata.slug)
             /\ RoundTrip(body, store'.configs[body.metadata.slug])]_vars

\* The password that a request body submits; "" when it submits none.
Submitted(body) == IF body.json THEN OrText(body.value, "password", "") ELSE ""

C28_SessionResponses ==
    http.op = "session" =>
       IF store.secret = "" THEN http.status = 500 /\ ~http.call.sent
       ELSE IF http.call.sent /\ http.provider.outcome = "rejected"
       THEN http.status = http.provider.status /\ http.answer = {"error", "details"}
       ELSE http.status = 200 /\ http.answer = {"session"}

\* C28, amended: 500 without a call to the provider when the API key is not configured
\* or the body is not JSON; the provider's status with {error, details} when the
\* provider rejects; 200 with the session object when it accepts; 500 with {error}
\* when the call or the decoding of its response fails.
C28_SessionResponsesParsed ==
    http.op = "session" =>
       IF store.secret = "" \/ ~http.request.json
       THEN http.status = 500 /\ ~http.call.sent /\ http.answer = {"error"}
       ELSE /\ http.call.sent
            /\ http.provider.outcome = "rejected" =>
                  (http.status = http.provider.status /\ http.answer = {"error", "details"})
            /\ http.provider.outcome = "ok" =>
                  (http.status = 200 /\ http.answer = {"session"})
            /\ http.provider.outcome \in {"unreachable", "garbled"} =>
                  (http.status = 500 /\ http.answer = {"error"})

\* The provider rejected a session request with 429 and the broker passed the status on.
C28_Witness ==
    /\ http.op = "session" /\ http.call.sent
    /\ http.provider.outcome = "rejected" /\ http.provider.status = 429
    /\ http.status = 429

\* C29: for every voice of a session request that is not a voice identifier of the
\* provider (absent, empty or unknown) the broker sends a valid default voice instead;
\* absent or empty instructions are sent as the empty string.
C29_VoiceFallback ==
    (http.op = "session" /\ http.call.sent) =>
       /\ OrText(http.request.value, "voice", "") \notin RealtimeVoice =>
             http.call.voice \in RealtimeVoice
       /\ OrText(http.request.value, "instructions", "") = "" => http.call.instructions = ""

\* The text begins with the prompt (the prompt, optionally followed by a suffix).
BeginsWith(text, prompt) ==
    /\ Len(text) >= Len(prompt)
    /\ SubSeq(text, 1, Len(prompt)) = prompt

\* C30: every session configuration sent to the provider, by the session broker and by
\* the session update of the socket transport, carries turn detection 0.6 / 400 ms /
\* 1200 ms, and the session update's instructions begin with the profile's systemPrompt.
C30_SessionConfiguration ==
    (http.op \in {"session", "session.update"} /\ http.call.sent) =>
       /\ http.call.turn_detection =
             [type |-> "server_vad", threshold |-> 6,
              prefix_padding_ms |-> 400, silence_duration_ms |-> 1200]
       /\ http.op = "session.update" =>
             BeginsWith(http.call.instructions, http.request.value.systemPrompt)

\* C31: once the operator has typed the prompt, an edit of another field, of the
\* metadata or of a persona leaves systemPrompt as it is, until regenerate or a load;
\* an edit of the metadata or of a persona never changes systemPrompt.
C31_ManualPromptKept ==
    [][(editor.open /\ editor.hasConfig /\ editor'.open) =>
          /\ (editor.hand /\ editor'.last \in {"updateField", "updateMetadata", "updatePersona"})
                => editor'.config.systemPrompt = editor.config.systemPrompt
          /\ editor'.last \in {"updateMetadata", "updatePersona"}
                => editor'.config.systemPrompt = editor.config.systemPrompt]_vars

\* A field was edited after the prompt was typed by hand, and the generated prompt
\* would have been another one.
C31_Witness ==
    /\ editor.open /\ editor.hasConfig
    /\ editor.hand
    /\ editor.last = "updateField"
    /\ editor.config.systemPrompt # generateSystemPrompt(editor.config)

\* The settings the store holds: the old configuration while it is there, the drk
\* config after it.
Kept(st) ==
    IF st.old THEN st.oldConfig
    ELSE IF kvHas(st, Drk) THEN st.configs[Drk]
    ELSE [f \in {} |-> ""]

Keeps(st, settings) ==
    \A f \in DOMAIN settings : f \in DOMAIN Kept(st) /\ Kept(st)[f] = settings[f]

\* C32: at every step of a migration, and after a failure at any step, every setting
\* of the old configuration is stored under the old key or in the drk config; a list
\* request that completes leaves the index with the one simulator drk as the default,
\* and a list request that finds the index leaves the store as it is.
C32_MigrationKeepsData ==
    /\ [][store.old => Keeps(store', store.oldConfig)]_vars
    /\ [][(~store.old /\ kvHas(store, Drk)) => Keeps(store', store.configs[Drk])]_vars
    /\ []((http.op = "list" /\ http.status = 200) =>
             /\ store.index /\ IndexSlugs(store) = {Drk} /\ Len(store.simulators) = 1
             /\ store.defaultSlug = Drk /\ kvHas(store, Drk))
    /\ [][\A i \in 1..MaxRequests :
             (listGetIndex(i) /\ store.index) => (store' = store /\ http'.status = 200)]_vars

\* A migration was completed: the old key is gone and the drk config holds the agent
\* name of the old configuration.
C32_Witness ==
    /\ http.op = "list" /\ http.status = 200
    /\ ~store.old /\ store.index
    /\ kvHas(store, Drk) /\ store.configs[Drk].agentName = "Anna"

\* C33: for every text, toSlug returns the empty text or a slug that isValidSlug
\* accepts.
C33_ToSlugValid ==
    ("typed" \in DOMAIN editor /\ editor.last = "updateMetadata") =>
        \/ editor.config.metadata.slug = <<>>
        \/ isValidSlug(editor.config.metadata.slug)

\* The index entry of slug.
Entry(st, slug) == CHOOSE m \in {st.simulators[i] : i \in 1..Len(st.simulators)} : m.slug = slug

Entries(st, slug) == Cardinality({i \in 1..Len(st.simulators) : st.simulators[i].slug = slug})

\* C34: a successful upsert that changes the slug of an existing profile from S to N
\* stores the profile under N and removes it under S, replaces S by N in the index
\* without a duplicate, keeps createdAt, makes N the default if S was; every other
\* profile, every other index entry and otherwise the default stay as they were.
C34_RenameFrame ==
    [][\A S \in Slugs, body \in Profiles :
          (/\ updateSimulator(S, body)
           /\ kvHas(store, S) /\ body.metadata.slug # S /\ http'.status = 200) =>
             LET N == body.metadata.slug
             IN /\ kvHas(store', N) /\ ~kvHas(store', S)
                /\ store'.configs[N].agentName = body.agentName
                /\ store'.configs[N].metadata.slug = N
                /\ S \notin IndexSlugs(store')
                /\ Entries(store', N) = 1
                /\ Entry(store', N) = store'.configs[N].metadata
                /\ store'.configs[N].metadata.createdAt = store.configs[S].metadata.createdAt
                /\ store'.defaultSlug = IF store.defaultSlug = S THEN N ELSE store.defaultSlug
                /\ \A other \in Slugs \ {S, N} :
                      /\ kvHas(store', other) = kvHas(store, other)
                      /\ kvHas(store, other) => store'.configs[other] = store.configs[other]
                      /\ Entries(store', other) = Entries(store, other)
                      /\ Entries(store, other) = 1 => Entry(store', other) = Entry(store, other)]_vars

\* A profile created at an earlier time was renamed, and it was the default.
C34_Witness ==
    /\ http.op = "update" /\ http.status = 200
    /\ http.slug # <<>> /\ ~kvHas(store, http.slug)
    /\ http.defaultSlug = http.slug
    /\ store.defaultSlug # http.slug /\ kvHas(store, store.defaultSlug)
    /\ store.configs[store.defaultSlug].metadata.createdAt
          < store.configs[store.defaultSlug].metadata.updatedAt
    /\ Len(store.simulators) >= 2

\* C35: with the requests handled one at a time, after any sequence of list, upsert
\* and delete requests the slugs of the index are the slugs that have a stored config,
\* and no slug is in the index twice.
C35_IndexMatchesConfigs ==
    store.server # "none" =>
        /\ IndexSlugs(store) = DOMAIN store.configs
        /\ \A slug \in IndexSlugs(store) : Entries(store, slug) = 1

\* Three profiles were stored and the seeded one was deleted: two are left.
C35_Witness ==
    /\ http.op = "delete" /\ http.status = 200
    /\ Len(store.simulators) = 2
    /\ Drk \notin IndexSlugs(store)

\* C36: whatever the interleaving of the store calls of delete requests that overlap,
\* once they are answered at least one config is stored and every slug of the index
\* has its config.
C36_ConcurrentDeletes ==
    (store.server = "vercel" /\ reqs = <<>> /\ http.op = "delete") =>
        /\ DOMAIN store.configs # {}
        /\ IndexSlugs(store) \subseteq DOMAIN store.configs

\* C37: in every reachable state isAgentSpeaking is true exactly when callState is
\* AGENT_SPEAKING.
C37_IndicatorAgrees == isAgentSpeaking <=> (callState = AGENT_SPEAKING)

\* C38: at most one debounce timer is pending at any time, none is pending after
\* cleanup has run, and the expiry of a debounce timer never moves callState from
\* ENDED or IDLE to CONVERSATION.
C38_DebounceCleared ==
    /\ [](debouncePending <= 1)
    /\ [][(connectionRef' = 0 /\ speakingTimeoutRef' = NoTimer
              /\ (connectionRef # 0 \/ speakingTimeoutRef # NoTimer))
            => debouncePending' = 0]_vars
    /\ [][(debounceTimer /\ callState \in {ENDED, IDLE}) => callState' # CONVERSATION]_vars

\* C39: isAuthenticated becomes true only by a success response of the verify
\* endpoint for the password presented; after a rejected stored password and after
\* logout isAuthenticated is false and the storage holds no password.
C39_AuthOnlyVerified ==
    /\ [][(auth.mounted /\ auth'.mounted /\ ~auth.isAuthenticated /\ auth'.isAuthenticated) =>
             /\ auth.request.kind # "none"
             /\ auth'.last = "verified"
             /\ verifyStatus(auth.request.password) = 200]_vars
    /\ []((auth.mounted /\ auth.last \in {"rejected", "logout"}) =>
             (~auth.isAuthenticated /\ auth.storage = ""))

====
